---------------------------- MODULE Spec2Model ----------------------------
(***************************************************************************)
(* A model of the FASTQ combiner (src/fastq_combiner.py): file discovery   *)
(* (find_fastq_files_fast), the streaming combiner                         *)
(* (combine_fastq_files_streaming, count_reads_fast) and the per-target    *)
(* worker (process_target) run by the thread pool of                       *)
(* combine_fastq_files_main.                                               *)
(*                                                                         *)
(* Python strings (file names, paths, target names, lines of text) are     *)
(* sequences of one-character strings, so that str.replace, str.split,     *)
(* the `in` test and fnmatch are computed character by character as the    *)
(* code computes them.                                                     *)
(***************************************************************************)
EXTENDS Integers, Sequences, FiniteSets, TLC

VARIABLES
    \* ---- find_fastq_files_fast ----
    disk,          \* the paths that exist on disk (os.path.exists)
    search_dirs,   \* the search_dirs argument
    scanned,       \* <<n, path>>: glob number n already yielded path to the loop
    temp_pairs,    \* the temp_pairs dict, in insertion order
    file_pairs,    \* the returned file_pairs dict, in insertion order
    dpc,           \* "scan" while the scan loop runs, "done" after the return
    \* ---- combine_fastq_files_streaming, called on its own ----
    csrc,          \* source_files: a sequence of [readable, text]
    cdedup,        \* the deduplicate argument
    cout,          \* the output file: [exists, text]
    cret,          \* the returned total_reads
    cpc,           \* "call" before the call, then "returned" or "raised"
    analysis,      \* the options [check_barcodes, gc_analysis, adapter_check]
    cobs,          \* what the call observed: [barcodes_found, gc_contents, adapters_found]
    \* ---- process_target under the thread pool of combine_fastq_files_main ----
    final_mapping, \* target -> matched_sources (keys of file_pairs)
    force,         \* --force
    args_deduplicate,       \* --deduplicate
    args_paired_end_dedup,  \* --paired-end-dedup
    threads,       \* max_workers of the pool
    content,       \* source path -> text of the file
    prev_outputs,  \* the output paths that exist before the run
    outfs,         \* output path -> [exists, text, partial, writer]
    wpc,           \* target -> where its process_target call stands
    wloc,          \* target -> locals of the call: [mismatches, r1_reads]
    wres,          \* target -> the result dict process_target returned
    removed,       \* <<target, path, partial>>: files the cleanup deleted
    faults,        \* number of failures the environment has caused so far
    \* ---- the record loop of combine_fastq_files_streaming, record by record ----
    ceiling,       \* the value of max_sequences the loop compares with
    cst,           \* the locals of the call: [seen, active, out, total_reads, warnings]
    clines,        \* per source still to read: the lines readline() has not returned yet
    \* ---- source resolution in combine_fastq_files_main ----
    mapping,       \* the mapping read from the CSV, in row order: [target, sources]
    rtarget,       \* index in mapping of the target the outer loop is at
    rsource,       \* index of the declared source the inner loop is at
    matched_sources, \* matched_sources of the target the outer loop is at
    fuzzy_matches, \* the fuzzy_matches dict: a set of <<declared, resolved>>
    \* ---- combine_fastq_files_main from pre-validation on, and main() ----
    mpc,           \* where the main thread stands
    dry_run,       \* --dry-run
    invalid_targets, \* the targets pre-validation found a missing file for
    combination_stats, \* target -> the result collected from its future
    pending_at_interrupt, \* the targets not yet started when the interrupt came
    caught,        \* the exception main() caught: "none", "KeyboardInterrupt", "Exception"
    exit_status,   \* the exit status of the process (-1 while it runs)
    \* ---- process_target of src/v2/fastq_combiner_v2.py ----
    v2_resume,     \* --resume
    v2_dry_run,    \* --dry-run
    v2_sources,    \* <<text of the R1 source, text of the R2 source>>
    v2_before,     \* the two output files before the call: <<R1, R2>> of [exists, text]
    v2_outputs,    \* the two output files: <<R1, R2>> of [exists, text, opened]
    v2_result,     \* the dict the call returned
    v2_pc,         \* "call" before the call, then "returned"
    \* ---- the same combination run again ----
    clock,         \* time.time(), in whole seconds
    runs,          \* per finished run: [file, checksum] of its output
    \* ---- the functions that derive names ----
    name_in,       \* the string a function is called on
    name_out,      \* [fn, value]: the function called and what it returned
    npc            \* "call" before the call, then "returned"

dvars == <<disk, search_dirs, scanned, temp_pairs, file_pairs, dpc>>

cvars == <<csrc, cdedup, cout, cret, cpc, analysis, cobs>>

tvars == <<final_mapping, force, args_deduplicate, args_paired_end_dedup, threads,
           content, prev_outputs, outfs, wpc, wloc, wres, removed, faults>>

kvars == <<ceiling, cst, clines>>

rvars == <<mapping, rtarget, rsource, matched_sources, fuzzy_matches>>

mvars == <<mpc, dry_run, invalid_targets, combination_stats, pending_at_interrupt,
           caught, exit_status>>

v2vars == <<v2_resume, v2_dry_run, v2_sources, v2_before, v2_outputs, v2_result, v2_pc>>

\* the variables of the routines added to the three above
yvars == <<clock, runs, name_in, name_out, npc>>

xvars == <<kvars, rvars, mvars, v2vars, yvars>>

(***************************************************************************)
(* Python str operations on sequences of characters.                       *)
(***************************************************************************)

\* s.startswith(p)
StartsWith(s, p) == Len(p) <= Len(s) /\ SubSeq(s, 1, Len(p)) = p

\* s.endswith(p)
EndsWith(s, p) == Len(p) <= Len(s) /\ SubSeq(s, Len(s) - Len(p) + 1, Len(s)) = p

\* s.find(sub) + 1: the first position where sub occurs in s, 0 when it does not
Find(s, sub) ==
    LET hits == {i \in 1..(Len(s) - Len(sub) + 1) : SubSeq(s, i, i + Len(sub) - 1) = sub}
    IN  IF hits = {} THEN 0 ELSE CHOOSE i \in hits : \A j \in hits : i <= j

\* sub in s
Contains(s, sub) == Find(s, sub) # 0

\* s.replace(old, new): every non-overlapping occurrence, left to right
RECURSIVE Replace(_, _, _)
Replace(s, old, new) ==
    LET i == Find(s, old)
    IN  IF i = 0 THEN s
        ELSE SubSeq(s, 1, i - 1) \o new \o Replace(SubSeq(s, i + Len(old), Len(s)), old, new)

\* s.split(sep)[0]
SplitFirst(s, sep) ==
    LET i == Find(s, sep) IN IF i = 0 THEN s ELSE SubSeq(s, 1, i - 1)

\* fnmatch.fnmatch(name, pat) for patterns made of literal characters and '*'
RECURSIVE FnMatch(_, _)
FnMatch(name, pat) ==
    IF pat = <<>> THEN name = <<>>
    ELSE IF Head(pat) = "*"
         THEN FnMatch(name, Tail(pat)) \/ (name # <<>> /\ FnMatch(Tail(name), pat))
         ELSE name # <<>> /\ Head(name) = Head(pat) /\ FnMatch(Tail(name), Tail(pat))

\* position of the last '/' of a path, 0 when there is none
LastSlash(p) ==
    LET hits == {i \in 1..Len(p) : p[i] = "/"}
    IN  IF hits = {} THEN 0 ELSE CHOOSE i \in hits : \A j \in hits : j <= i

\* os.path.basename(p)
Basename(p) == SubSeq(p, LastSlash(p) + 1, Len(p))

\* os.path.dirname(p): the head up to the last '/', trailing slashes stripped
\* unless the head is the root
Dirname(p) ==
    LET head == SubSeq(p, 1, LastSlash(p))
    IN  IF Len(head) > 1 THEN SubSeq(head, 1, Len(head) - 1) ELSE head

\* os.path.join(a, b)
Join(a, b) ==
    IF StartsWith(b, <<"/">>) THEN b
    ELSE IF a = <<>> \/ EndsWith(a, <<"/">>) THEN a \o b
    ELSE a \o <<"/">> \o b

\* the process's working directory, used by os.path.abspath
Cwd == <<"/", "w">>

\* os.path.abspath(p) for a path without '.' and '..' components
Abspath(p) == IF StartsWith(p, <<"/">>) THEN p ELSE Join(Cwd, p)

(***************************************************************************)
(* The string constants of find_fastq_files_fast and                       *)
(* validate_paired_end_integrity.                                          *)
(***************************************************************************)
sR1 == <<"R", "1">>
sR2 == <<"R", "2">>
sU1 == <<"_", "1">>
sU2 == <<"_", "2">>
sDotR1 == <<".", "R", "1">>
sDotR2 == <<".", "R", "2">>
sUR1 == <<"_", "R", "1">>
sUR2 == <<"_", "R", "2">>
sUS == <<"_", "S">>
sUR1U == <<"_", "R", "1", "_">>
sUR2U == <<"_", "R", "2", "_">>
sUR1Dot == <<"_", "R", "1", ".">>
sUR2Dot == <<"_", "R", "2", ".">>
sU1Dot == <<"_", "1", ".">>
sU2Dot == <<"_", "2", ".">>
sDotR1Dot == <<".", "R", "1", ".">>
sDotR2Dot == <<".", "R", "2", ".">>
sFastqGz == <<".", "f", "a", "s", "t", "q", ".", "g", "z">>
sFastq == <<".", "f", "a", "s", "t", "q">>

default_r1_patterns ==
    << <<"*", "_", "R", "1", "_", "*", ".", "f", "a", "s", "t", "q", ".", "g", "z">>,
       <<"*", "_", "R", "1", ".", "f", "a", "s", "t", "q", ".", "g", "z">>,
       <<"*", "_", "1", ".", "f", "a", "s", "t", "q", ".", "g", "z">>,
       <<"*", ".", "R", "1", ".", "f", "a", "s", "t", "q", ".", "g", "z">>,
       <<"*", "_", "R", "1", "_", "*", ".", "f", "a", "s", "t", "q">>,
       <<"*", "_", "R", "1", ".", "f", "a", "s", "t", "q">>,
       <<"*", "_", "1", ".", "f", "a", "s", "t", "q">>,
       <<"*", ".", "R", "1", ".", "f", "a", "s", "t", "q">> >>

\* p.replace('R1', 'R2').replace('_1', '_2').replace('.R1', '.R2')
ToR2(p) == Replace(Replace(Replace(p, sR1, sR2), sU1, sU2), sDotR1, sDotR2)

default_r2_patterns ==
    [i \in 1..Len(default_r1_patterns) |-> ToR2(default_r1_patterns[i])]

(***************************************************************************)
(* Dicts that keep insertion order: sequences of [key, R1, R2] entries.    *)
(***************************************************************************)
Keys(d) == {d[i].key : i \in 1..Len(d)}

HasKey(d, k) == k \in Keys(d)

Lookup(d, k) == d[CHOOSE i \in 1..Len(d) : d[i].key = k]

\* d[k] = {'R1': r1, 'R2': r2}
DictSet(d, k, r1, r2) ==
    IF HasKey(d, k)
    THEN [i \in 1..Len(d) |-> IF d[i].key = k THEN [key |-> k, R1 |-> r1, R2 |-> r2] ELSE d[i]]
    ELSE Append(d, [key |-> k, R1 |-> r1, R2 |-> r2])

(***************************************************************************)
(* find_fastq_files_fast                                                   *)
(***************************************************************************)

\* p lies in directory dir or below it
Under(dir, p) == StartsWith(p, Join(dir, <<>>)) /\ Len(p) > Len(Join(dir, <<>>))

\* glob.glob(os.path.join(search_dir, "**", r1_pattern), recursive=True)
Glob(search_dir, r1_pattern) ==
    {p \in disk : Under(search_dir, p) /\ FnMatch(Basename(p), r1_pattern)}

\* some extraction strategy applies to the basename
HasSampleBase(basename) ==
    \/ Contains(basename, sUR1U)
    \/ Contains(basename, sUR1Dot)
    \/ Contains(basename, sU1Dot)
    \/ Contains(basename, sDotR1Dot)

\* the sample_base the strategies extract, first match first
SampleBase(basename) ==
    IF Contains(basename, sUS) /\ Contains(basename, sUR1U) THEN SplitFirst(basename, sUS)
    ELSE IF Contains(basename, sUR1U) THEN SplitFirst(basename, sUR1U)
    ELSE IF Contains(basename, sUR1Dot) THEN SplitFirst(basename, sUR1Dot)
    ELSE IF Contains(basename, sU1Dot) THEN SplitFirst(basename, sU1Dot)
    ELSE SplitFirst(basename, sDotR1Dot)

\* r2_candidates: one pattern-based candidate per r2 pattern, then the legacy ones
R2Candidates(r1_file) ==
    [i \in 1..Len(default_r2_patterns) |->
        Join(Dirname(r1_file), ToR2(Basename(r1_file)))]
    \o << Replace(r1_file, sUR1U, sUR2U),
          Replace(r1_file, sUR1Dot, sUR2Dot),
          Replace(r1_file, sU1Dot, sU2Dot),
          Replace(r1_file, sDotR1Dot, sDotR2Dot),
          Replace(Replace(r1_file, sUR1U, sUR2U), sFastqGz, sFastq),
          Replace(Replace(r1_file, sUR1Dot, sUR2Dot), sFastqGz, sFastq),
          Replace(Replace(r1_file, sU1Dot, sU2Dot), sFastqGz, sFastq),
          Replace(Replace(r1_file, sDotR1Dot, sDotR2Dot), sFastqGz, sFastq) >>

\* the candidates that exist on disk, in candidate order
ExistingCandidates(r1_file) ==
    SelectSeq(R2Candidates(r1_file), LAMBDA c : c \in disk)

\* the key without the fallback: always sample_base
PairKey_NoFallback(tp, sample_base, full_r1_path) == sample_base

\* the key a new pair is stored under: sample_base, or the mate-1 absolute
\* path when sample_base is already a key of temp_pairs
PairKey(tp, sample_base, full_r1_path) ==
    IF HasKey(tp, sample_base) THEN full_r1_path ELSE sample_base

\* the body of the loop over r1_files: temp_pairs after r1_file is processed
ProcessR1File(tp, r1_file) ==
    LET basename == Basename(r1_file)
        existing == ExistingCandidates(r1_file)
    IN  IF ~HasSampleBase(basename) THEN tp
        ELSE IF existing = <<>> THEN tp
        ELSE LET full_r1_path == Abspath(r1_file)
                 full_r2_path == Abspath(Head(existing))
             IN  DictSet(tp, PairKey(tp, SampleBase(basename), full_r1_path),
                         full_r1_path, full_r2_path)

\* the final loop: temp_pairs converted to file_pairs
RECURSIVE ConvertPairs(_, _)
ConvertPairs(fp, tp) ==
    IF tp = <<>> THEN fp
    ELSE LET e == Head(tp)
         IN  IF ~HasKey(fp, e.key)
             THEN ConvertPairs(DictSet(fp, e.key, e.R1, e.R2), Tail(tp))
             ELSE ConvertPairs(DictSet(fp, e.R1, e.R1, e.R2), Tail(tp))

\* the globs of the scan, numbered in loop order: search_dirs outer, patterns inner
NumGlobs == Len(search_dirs) * Len(default_r1_patterns)

GlobDir(n) == search_dirs[((n - 1) \div Len(default_r1_patterns)) + 1]

GlobPattern(n) == default_r1_patterns[((n - 1) % Len(default_r1_patterns)) + 1]

\* the files glob number n has not yet handed to the loop
Pending(n) == {p \in Glob(GlobDir(n), GlobPattern(n)) : <<n, p>> \notin scanned}

(***************************************************************************)
(* The files and directories the scan is run on.                           *)
(***************************************************************************)
DirD == <<"/", "d">>
DirE == <<"/", "e">>
DirRoot == <<"/">>

NameU == <<"s", "_", "R", "1", ".", "f", "a", "s", "t", "q", ".", "g", "z">>
NameI == <<"s", "_", "S", "1", "_", "R", "1", "_", "0", "0", "1", ".", "f", "a", "s", "t", "q", ".", "g", "z">>
NameDot == <<"t", ".", "R", "1", ".", "f", "a", "s", "t", "q">>
NameNum == <<"s", "_", "1", ".", "f", "a", "s", "t", "q">>

\* the proper mate-2 name of a mate-1 name: its mate-1 marker turned into the
\* mate-2 marker
Mate2Name(name) ==
    IF Contains(name, sUR1U) THEN Replace(name, sUR1U, sUR2U)
    ELSE IF Contains(name, sUR1Dot) THEN Replace(name, sUR1Dot, sUR2Dot)
    ELSE IF Contains(name, sDotR1Dot) THEN Replace(name, sDotR1Dot, sDotR2Dot)
    ELSE Replace(name, sU1Dot, sU2Dot)

Mate1Paths ==
    {Join(DirD, NameU), Join(DirD, NameI), Join(DirD, NameDot), Join(DirE, NameU),
     Join(DirE, NameNum)}

Mate2Of(r1) == Join(Dirname(r1), Mate2Name(Basename(r1)))

PathUniverse == Mate1Paths \cup {Mate2Of(p) : p \in Mate1Paths}

SearchDirChoices ==
    {<<DirD>>, <<DirD, DirE>>, <<DirE, DirD>>, <<DirRoot>>, <<DirD, DirD>>}

DiscoverStart ==
    /\ disk \in SUBSET PathUniverse
    /\ search_dirs \in SearchDirChoices
    /\ scanned = {}
    /\ temp_pairs = <<>>
    /\ file_pairs = <<>>
    /\ dpc = "scan"

\* one iteration of `for r1_file in r1_files`, of the first glob that still
\* has files to hand out (glob returns them in no fixed order)
ScanFile ==
    /\ dpc = "scan"
    /\ \E n \in 1..NumGlobs :
         /\ Pending(n) # {}
         /\ \A m \in 1..(n - 1) : Pending(m) = {}
         /\ \E r1_file \in Pending(n) :
              /\ temp_pairs' = ProcessR1File(temp_pairs, r1_file)
              /\ scanned' = scanned \cup {<<n, r1_file>>}
    /\ UNCHANGED <<disk, search_dirs, file_pairs, dpc>>
    /\ UNCHANGED <<cvars, tvars, xvars>>

\* the scan is over: temp_pairs is converted and file_pairs returned
FinishScan ==
    /\ dpc = "scan"
    /\ \A n \in 1..NumGlobs : Pending(n) = {}
    /\ file_pairs' = ConvertPairs(<<>>, temp_pairs)
    /\ dpc' = "done"
    /\ UNCHANGED <<disk, search_dirs, scanned, temp_pairs>>
    /\ UNCHANGED <<cvars, tvars, xvars>>

(***************************************************************************)
(* Text files.  The text of a file is its decoded characters ('\n' ends a  *)
(* line); gzip.open / open in 'rt' mode hand the reader that text and in   *)
(* 'wt' mode store what is written.                                        *)
(***************************************************************************)
NL == <<"\n">>

Whitespace == {" ", "\t", "\n", "\r"}

\* s.strip()
RECURSIVE Strip(_)
Strip(s) ==
    IF s = <<>> THEN s
    ELSE IF Head(s) \in Whitespace THEN Strip(Tail(s))
    ELSE IF s[Len(s)] \in Whitespace THEN Strip(SubSeq(s, 1, Len(s) - 1))
    ELSE s

\* the strings successive readline() calls return until end of file: each
\* line with its '\n', the last one without when the text does not end in one
RECURSIVE ReadLines(_)
ReadLines(text) ==
    IF text = <<>> THEN <<>>
    ELSE LET i == Find(text, NL)
         IN  IF i = 0 THEN <<text>>
             ELSE <<SubSeq(text, 1, i)>> \o ReadLines(SubSeq(text, i + 1, Len(text)))

\* the loop of count_reads_fast over the lines of an opened file
RECURSIVE CountLoop(_)
CountLoop(lines) ==
    IF Len(lines) < 4 THEN 0
    ELSE (IF StartsWith(lines[1], <<"@">>) THEN 1 ELSE 0)
         + CountLoop(SubSeq(lines, 5, Len(lines)))

\* count_reads_fast(fastq_file): 0 when the file cannot be opened or read
count_reads_fast(file) ==
    IF file.readable THEN CountLoop(ReadLines(file.text)) ELSE 0

UpperChars ==
    <<"A", "B", "C", "D", "E", "F", "G", "H", "I", "J", "K", "L", "M",
      "N", "O", "P", "Q", "R", "S", "T", "U", "V", "W", "X", "Y", "Z">>

LowerChars ==
    <<"a", "b", "c", "d", "e", "f", "g", "h", "i", "j", "k", "l", "m",
      "n", "o", "p", "q", "r", "s", "t", "u", "v", "w", "x", "y", "z">>

\* s.lower()
Lower(s) ==
    [i \in 1..Len(s) |->
        IF \E k \in 1..Len(UpperChars) : UpperChars[k] = s[i]
        THEN LowerChars[CHOOSE k \in 1..Len(UpperChars) : UpperChars[k] = s[i]]
        ELSE s[i]]

\* s.upper()
Upper(s) ==
    [i \in 1..Len(s) |->
        IF \E k \in 1..Len(LowerChars) : LowerChars[k] = s[i]
        THEN UpperChars[CHOOSE k \in 1..Len(LowerChars) : LowerChars[k] = s[i]]
        ELSE s[i]]

(***************************************************************************)
(* The per-record analysis functions.                                      *)
(***************************************************************************)
DigitChars == {"0", "1", "2", "3", "4", "5", "6", "7", "8", "9"}

UpperSet == {UpperChars[k] : k \in 1..Len(UpperChars)}

\* the length of the run of characters of chars that starts at s[i], cut at most
RECURSIVE RunLength(_, _, _, _)
RunLength(s, i, chars, most) ==
    IF most = 0 \/ i > Len(s) \/ s[i] \notin chars THEN 0
    ELSE 1 + RunLength(s, i + 1, chars, most - 1)

\* re.search('[chars]{least,most}', s): the leftmost match, as long as it can
\* be; <<>> when there is none
SearchRun(s, chars, least, most) ==
    LET starts == {i \in 1..Len(s) : RunLength(s, i, chars, most) >= least}
    IN  IF starts = {} THEN <<>>
        ELSE LET i == CHOOSE j \in starts : \A k \in starts : j <= k
             IN  SubSeq(s, i, i + RunLength(s, i, chars, most) - 1)

\* extract_sample_barcode(header_line): the first pattern that matches; None
\* is <<>>
extract_sample_barcode(header_line) ==
    IF SearchRun(header_line, UpperSet, 6, 8) # <<>>
    THEN SearchRun(header_line, UpperSet, 6, 8)
    ELSE IF SearchRun(header_line, DigitChars, 4, 6) # <<>>
    THEN SearchRun(header_line, DigitChars, 4, 6)
    ELSE SearchRun(header_line, UpperSet \cup DigitChars, 8, 10)

\* calculate_gc_content(sequence): (gc_count / len(sequence)) * 100 as the
\* fraction num / den, 0.0 for the empty sequence
calculate_gc_content(sequence) ==
    IF sequence = <<>> THEN [num |-> 0, den |-> 1]
    ELSE [num |-> 100 * Len(SelectSeq(Upper(sequence), LAMBDA c : c \in {"G", "C"})),
          den |-> Len(sequence)]

common_adapters ==
    << <<"A", "G", "A", "T", "C", "G", "G", "A", "A", "G", "A", "G">>,
       <<"C", "T", "G", "T", "C", "T", "C", "T", "T", "A", "T", "A">>,
       <<"A", "A", "T", "G", "A", "T", "A", "C", "G", "G", "C", "G">> >>

\* detect_adapters(sequence): the adapters found in sequence.upper()
detect_adapters(sequence) ==
    {common_adapters[k] : k \in {j \in 1..Len(common_adapters) :
                                    Contains(Upper(sequence), common_adapters[j])}}

NoAnalysis == [check_barcodes |-> FALSE, gc_analysis |-> FALSE, adapter_check |-> FALSE]

\* the observations after one more record was analysed under the options
Analyse(st, header, seq_str) ==
    [st EXCEPT
        !.barcodes_found =
            IF st.options.check_barcodes /\ extract_sample_barcode(Strip(header)) # <<>>
            THEN @ \cup {extract_sample_barcode(Strip(header))} ELSE @,
        !.gc_contents =
            IF st.options.gc_analysis THEN Append(@, calculate_gc_content(seq_str)) ELSE @,
        !.adapters_found =
            IF st.options.adapter_check THEN @ \cup detect_adapters(seq_str) ELSE @]

\* the observations of a call
Observations(st) ==
    [barcodes_found |-> st.barcodes_found, gc_contents |-> st.gc_contents,
     adapters_found |-> st.adapters_found]

(***************************************************************************)
(* combine_fastq_files_streaming                                           *)
(***************************************************************************)
max_sequences == 10000000

\* the state of the call before the first source is opened
CombineStartWith(deduplicate, options) ==
    [seen |-> {}, active |-> deduplicate, out |-> <<>>, total_reads |-> 0, warnings |-> 0,
     options |-> options, barcodes_found |-> {}, gc_contents |-> <<>>, adapters_found |-> {}]

CombineStart(deduplicate) == CombineStartWith(deduplicate, analysis)

\* the loop in which a record holding an adapter is left out of the output
RECURSIVE CopyRecords_DropsAdapters(_, _, _)
CopyRecords_DropsAdapters(lines, st, deduplicate) ==
    IF Len(lines) < 4 THEN st
    ELSE LET rest == SubSeq(lines, 5, Len(lines))
             seen == Analyse(st, lines[1], Strip(lines[2]))
         IN  IF st.options.adapter_check /\ detect_adapters(Strip(lines[2])) # {}
             THEN CopyRecords_DropsAdapters(rest, seen, deduplicate)
             ELSE CopyRecords_DropsAdapters(rest,
                      [seen EXCEPT !.total_reads = @ + 1,
                                   !.out = @ \o lines[1] \o lines[2] \o lines[3] \o lines[4]],
                      deduplicate)

\* the loop that also writes the lines of a truncated trailing record
RECURSIVE CopyRecords_KeepTail(_, _, _)
CopyRecords_KeepTail(lines, st, deduplicate) ==
    IF lines = <<>> THEN st
    ELSE IF Len(lines) < 4
    THEN CopyRecords_KeepTail(Tail(lines), [st EXCEPT !.out = @ \o Head(lines)], deduplicate)
    ELSE CopyRecords_KeepTail(SubSeq(lines, 5, Len(lines)),
                              [st EXCEPT !.total_reads = @ + 1,
                                         !.out = @ \o lines[1] \o lines[2] \o lines[3] \o lines[4]],
                              deduplicate)

\* the loop with no ceiling: every new sequence is added to the set
RECURSIVE CopyRecords_NoCeiling(_, _, _)
CopyRecords_NoCeiling(lines, st, deduplicate) ==
    IF Len(lines) < 4 THEN st
    ELSE LET seq_str == Strip(lines[2])
             rest == SubSeq(lines, 5, Len(lines))
             written == [st EXCEPT !.total_reads = @ + 1,
                                   !.out = @ \o lines[1] \o lines[2] \o lines[3] \o lines[4]]
         IN  IF deduplicate /\ seq_str \in st.seen
             THEN CopyRecords_NoCeiling(rest, st, deduplicate)
             ELSE CopyRecords_NoCeiling(rest, [written EXCEPT !.seen = @ \cup {seq_str}],
                                        deduplicate)

\* the inner `while True` loop over one opened source: st after its lines.
\* active is `seen_sequences is not None`.
RECURSIVE CopyRecords(_, _, _)
CopyRecords(lines, st, deduplicate) ==
    IF Len(lines) < 4 THEN st
    ELSE LET header == lines[1]
             sequence == lines[2]
             plus == lines[3]
             quality == lines[4]
             seq_str == Strip(sequence)
             rest == SubSeq(lines, 5, Len(lines))
             written == [Analyse(st, header, seq_str) EXCEPT
                            !.total_reads = @ + 1,
                            !.out = @ \o header \o sequence \o plus \o quality]
         IN  IF deduplicate /\ st.active
             THEN IF Cardinality(st.seen) >= ceiling
                  THEN CopyRecords(rest, [written EXCEPT !.active = FALSE,
                                                         !.warnings = @ + 1], deduplicate)
                  ELSE IF seq_str \in st.seen
                       THEN CopyRecords(rest, st, deduplicate)
                       ELSE CopyRecords(rest, [written EXCEPT !.seen = @ \cup {seq_str}],
                                        deduplicate)
             ELSE CopyRecords(rest, written, deduplicate)

\* the loop over source_files from source i on: os.path.getsize / open raise on
\* a source that is missing or unreadable, and the exception leaves the loop
RECURSIVE CombineFrom(_, _, _, _)
CombineFrom(source_files, i, st, deduplicate) ==
    IF i > Len(source_files) THEN [raised |-> FALSE, st |-> st]
    ELSE IF ~source_files[i].readable THEN [raised |-> TRUE, st |-> st]
    ELSE CombineFrom(source_files, i + 1,
                     CopyRecords(ReadLines(source_files[i].text), st, deduplicate),
                     deduplicate)

\* combine_fastq_files_streaming(source_files, output_file, deduplicate=...):
\* whether it raised, the text written to output_file, the count it returns
combine_fastq_files_streaming(source_files, deduplicate) ==
    LET r == CombineFrom(source_files, 1, CombineStart(deduplicate), deduplicate)
    IN  [raised |-> r.raised, out |-> r.st.out, total_reads |-> r.st.total_reads,
         warnings |-> r.st.warnings, observed |-> Observations(r.st)]

(***************************************************************************)
(* The inputs the combiner is called on.                                   *)
(***************************************************************************)
MaxRecords == 1
MaxSources == 2

RecA == <<"@", "a", "\n", "A", "\n", "+", "\n", "I", "\n">>
RecC == <<"@", "a", "\n", "C", "\n", "+", "\n", "I", "\n">>
RecNoAt == <<"a", "\n", "A", "\n", "+", "\n", "I", "\n">>
TruncatedRecord == <<"@", "a", "\n", "A", "\n">>

RecordChoices == {RecA, RecC, RecNoAt}

\* texts of at most n whole records
RECURSIVE RecordTexts(_)
RecordTexts(n) ==
    IF n = 0 THEN {<<>>}
    ELSE LET shorter == RecordTexts(n - 1)
         IN  shorter \cup {t \o r : t \in shorter, r \in RecordChoices}

\* the text without its final newline
Chop(text) == IF text = <<>> THEN text ELSE SubSeq(text, 1, Len(text) - 1)

\* whole records, then possibly a truncated record, with or without the
\* newline at the end of the file
FastqTexts ==
    LET whole == RecordTexts(MaxRecords)
        tailed == whole \cup {t \o TruncatedRecord : t \in whole}
    IN  tailed \cup {Chop(t) : t \in tailed}

SourceChoices ==
    {[readable |-> TRUE, text |-> t] : t \in FastqTexts}
    \cup {[readable |-> FALSE, text |-> <<>>]}

SourceLists == UNION {[1..n -> SourceChoices] : n \in 1..MaxSources}

CombineCallStart ==
    /\ csrc \in SourceLists
    /\ cdedup \in BOOLEAN
    /\ cout = [exists |-> FALSE, text |-> <<>>]
    /\ cret = 0
    /\ cpc = "call"
    /\ analysis = NoAnalysis
    /\ cobs = Observations(CombineStart(cdedup))

\* one call of combine_fastq_files_streaming(csrc, output, deduplicate=cdedup)
CombineCall ==
    /\ cpc = "call"
    /\ LET r == combine_fastq_files_streaming(csrc, cdedup)
       IN  /\ cout' = [exists |-> TRUE, text |-> r.out]
           /\ cret' = IF r.raised THEN cret ELSE r.total_reads
           /\ cpc' = IF r.raised THEN "raised" ELSE "returned"
           /\ cobs' = r.observed
    /\ UNCHANGED <<csrc, cdedup, analysis>>
    /\ UNCHANGED <<dvars, tvars, xvars>>

(***************************************************************************)
(* sanitize_sample_name and the output paths of a target                   *)
(***************************************************************************)
AlnumChars ==
    {"a", "b", "c", "d", "e", "f", "g", "h", "i", "j", "k", "l", "m",
     "n", "o", "p", "q", "r", "s", "t", "u", "v", "w", "x", "y", "z",
     "A", "B", "C", "D", "E", "F", "G", "H", "I", "J", "K", "L", "M",
     "N", "O", "P", "Q", "R", "S", "T", "U", "V", "W", "X", "Y", "Z",
     "0", "1", "2", "3", "4", "5", "6", "7", "8", "9"}

\* sample_name.replace(' ', '_').replace('-', '_'), then only the characters
\* that are alphanumeric or one of '_', '-' are kept
sanitize_sample_name(sample_name) ==
    LET sanitized == Replace(Replace(sample_name, <<" ">>, <<"_">>), <<"-">>, <<"_">>)
    IN  SelectSeq(sanitized, LAMBDA c : c \in AlnumChars \cup {"_", "-"})

output_dir == <<"/", "o">>

sR1Suffix == <<"_", "S", "1", "_", "R", "1", "_", "0", "0", "1", ".", "f", "a", "s", "t", "q", ".", "g", "z">>
sR2Suffix == <<"_", "S", "1", "_", "R", "2", "_", "0", "0", "1", ".", "f", "a", "s", "t", "q", ".", "g", "z">>

\* os.path.join(output_dir, f"{clean_target}_S1_R1_001.fastq.gz")
R1Output(target) == Join(output_dir, sanitize_sample_name(target) \o sR1Suffix)

\* os.path.join(output_dir, f"{clean_target}_S1_R2_001.fastq.gz")
R2Output(target) == Join(output_dir, sanitize_sample_name(target) \o sR2Suffix)

(***************************************************************************)
(* process_target                                                          *)
(***************************************************************************)
Targets == DOMAIN final_mapping

\* main(): --paired-end-dedup only switches deduplication on; the flag itself
\* is not passed to combine_fastq_files_main
deduplicate == args_deduplicate \/ args_paired_end_dedup

\* the file at a source path as a reader finds it
FileAt(p) == [readable |-> p \in disk, text |-> content[p]]

\* [file_pairs[s]['R1'] for s in matched_sources]
R1Sources(target) ==
    [i \in 1..Len(final_mapping[target]) |-> Lookup(file_pairs, final_mapping[target][i]).R1]

\* [file_pairs[s]['R2'] for s in matched_sources]
R2Sources(target) ==
    [i \in 1..Len(final_mapping[target]) |-> Lookup(file_pairs, final_mapping[target][i]).R2]

\* the mate-2 name validate_paired_end_integrity looks up for a mate-1 path:
\* f.replace('_R1', '_R2').replace('_1', '_2')
IntegrityMate(f) == Replace(Replace(f, sUR1, sUR2), sU1, sU2)

\* validate_paired_end_integrity(r1_files, r2_files): the mate-1 files
\* reported as mismatched, one entry per element of r1_files
validate_paired_end_integrity(r1_files, r2_files) ==
    SelectSeq(r1_files,
              LAMBDA f :
                  /\ IntegrityMate(f) \in {r2_files[i] : i \in 1..Len(r2_files)}
                  /\ count_reads_fast(FileAt(f))
                        # count_reads_fast(FileAt(IntegrityMate(f))))

\* the guard with `and` for `or`: both outputs must exist for it to trigger
OutputsExist_Both(fs, target) == fs[R1Output(target)].exists /\ fs[R2Output(target)].exists

\* the overwrite guard: os.path.exists(r1_output) or os.path.exists(r2_output)
OutputsExist(fs, target) == fs[R1Output(target)].exists \/ fs[R2Output(target)].exists

\* the result dicts process_target returns
SkippedResult(error) ==
    [skipped |-> TRUE, error |-> error, total_reads |-> 0, r2_reads |-> 0,
     paired_end_mismatches |-> 0]

CombinedResult(r1_reads, r2_reads, mismatches) ==
    [skipped |-> FALSE, error |-> "", total_reads |-> r1_reads, r2_reads |-> r2_reads,
     paired_end_mismatches |-> mismatches]

NoResult == SkippedResult("none")

AbsentFile == [exists |-> FALSE, text |-> <<>>, partial |-> FALSE, writer |-> <<>>]

\* what a call of combine_fastq_files_streaming by `target` leaves at its
\* output path.  fault "create": gzip.open of the output raises and the path
\* is left as it was; fault "write": the first write raises; no fault: the
\* sources are copied until one of them cannot be opened.
WrittenFile(old, target, sources, fault) ==
    LET r == combine_fastq_files_streaming([i \in 1..Len(sources) |-> FileAt(sources[i])],
                                           deduplicate)
    IN  IF fault = "create" THEN old
        ELSE IF fault = "write"
             THEN [exists |-> TRUE, text |-> <<>>, partial |-> TRUE, writer |-> target]
        ELSE [exists |-> TRUE, text |-> r.out, partial |-> r.raised, writer |-> target]

\* the call raised
CombineRaised(sources, fault) ==
    \/ fault # "none"
    \/ combine_fastq_files_streaming([i \in 1..Len(sources) |-> FileAt(sources[i])],
                                     deduplicate).raised

\* the count the call returned
CombineReads(sources) ==
    combine_fastq_files_streaming([i \in 1..Len(sources) |-> FileAt(sources[i])],
                                  deduplicate).total_reads

\* the clean-up with the loop over [r1_output] alone
RemoveOutputs_R1Only(fs, target) ==
    [p \in DOMAIN fs |-> IF p = R1Output(target) /\ fs[p].exists THEN AbsentFile ELSE fs[p]]

\* the except clause: `for output_file in [r1_output, r2_output]:
\* if os.path.exists(output_file): os.remove(output_file)`
RemoveOutputs(fs, target) ==
    [p \in DOMAIN fs |-> IF p \in {R1Output(target), R2Output(target)} /\ fs[p].exists
                         THEN AbsentFile ELSE fs[p]]

\* the calls the pool is running
Running == {t \in Targets : wpc[t] \in {"combine_r1", "combine_r2", "except"}}

MaxFaults == 1

FaultChoices == IF faults < MaxFaults THEN {"none", "create", "write"} ELSE {"none"}

\* a pool thread takes the target's task and runs process_target up to the
\* first combine call: the integrity check, then the overwrite guard
CheckTarget(t) ==
    /\ wpc[t] = "queued"
    /\ Cardinality(Running) < threads
    /\ LET mismatches == validate_paired_end_integrity(R1Sources(t), R2Sources(t))
       IN  IF mismatches # <<>> /\ ~force
           THEN /\ wres' = [wres EXCEPT ![t] = SkippedResult("paired_end_mismatch")]
                /\ wpc' = [wpc EXCEPT ![t] = "done"]
                /\ UNCHANGED wloc
           ELSE IF ~force /\ OutputsExist(outfs, t)
           THEN /\ wres' = [wres EXCEPT ![t] = SkippedResult("files_exist")]
                /\ wpc' = [wpc EXCEPT ![t] = "done"]
                /\ UNCHANGED wloc
           ELSE /\ wpc' = [wpc EXCEPT ![t] = "combine_r1"]
                /\ wloc' = [wloc EXCEPT ![t].mismatches = Len(mismatches)]
                /\ UNCHANGED wres
    /\ UNCHANGED <<final_mapping, force, args_deduplicate, args_paired_end_dedup, threads,
                   content, prev_outputs, outfs, removed, faults>>
    /\ UNCHANGED <<disk, search_dirs, scanned, temp_pairs, file_pairs, dpc, cvars, xvars>>

\* r1_reads = combine_fastq_files_streaming(r1_sources, r1_output, ...)
CombineR1(t) ==
    /\ wpc[t] = "combine_r1"
    /\ \E fault \in FaultChoices :
         /\ outfs' = [outfs EXCEPT ![R1Output(t)] = WrittenFile(@, t, R1Sources(t), fault)]
         /\ faults' = IF fault = "none" THEN faults ELSE faults + 1
         /\ IF CombineRaised(R1Sources(t), fault)
            THEN /\ wpc' = [wpc EXCEPT ![t] = "except"]
                 /\ UNCHANGED wloc
            ELSE /\ wpc' = [wpc EXCEPT ![t] = "combine_r2"]
                 /\ wloc' = [wloc EXCEPT ![t].r1_reads = CombineReads(R1Sources(t))]
    /\ UNCHANGED <<final_mapping, force, args_deduplicate, args_paired_end_dedup, threads,
                   content, prev_outputs, wres, removed>>
    /\ UNCHANGED <<disk, search_dirs, scanned, temp_pairs, file_pairs, dpc, cvars, xvars>>

\* r2_reads = combine_fastq_files_streaming(r2_sources, r2_output, ...) and, when
\* it returns, the rest of process_target: os.path.getsize of every source
\* (outside the try: a source that is gone makes the call raise), then the
\* result dict
CombineR2(t) ==
    /\ wpc[t] = "combine_r2"
    /\ \E fault \in FaultChoices :
         /\ outfs' = [outfs EXCEPT ![R2Output(t)] = WrittenFile(@, t, R2Sources(t), fault)]
         /\ faults' = IF fault = "none" THEN faults ELSE faults + 1
         /\ IF CombineRaised(R2Sources(t), fault)
            THEN /\ wpc' = [wpc EXCEPT ![t] = "except"]
                 /\ UNCHANGED wres
            ELSE IF \E i \in 1..Len(R1Sources(t)) :
                        R1Sources(t)[i] \notin disk \/ R2Sources(t)[i] \notin disk
            THEN /\ wpc' = [wpc EXCEPT ![t] = "raised"]
                 /\ UNCHANGED wres
            ELSE /\ wpc' = [wpc EXCEPT ![t] = "done"]
                 /\ wres' = [wres EXCEPT ![t] =
                                CombinedResult(wloc[t].r1_reads, CombineReads(R2Sources(t)),
                                               wloc[t].mismatches)]
    /\ UNCHANGED <<final_mapping, force, args_deduplicate, args_paired_end_dedup, threads,
                   content, prev_outputs, wloc, removed>>
    /\ UNCHANGED <<disk, search_dirs, scanned, temp_pairs, file_pairs, dpc, cvars, xvars>>

\* the except clause of process_target: partial outputs removed, a skipped
\* result carrying the error returned
CleanUp(t) ==
    /\ wpc[t] = "except"
    /\ outfs' = RemoveOutputs(outfs, t)
    /\ removed' = removed \cup
                    {<<t, p, outfs[p].partial>> :
                        p \in {q \in {R1Output(t), R2Output(t)} : outfs[q].exists}}
    /\ wres' = [wres EXCEPT ![t] = SkippedResult("exception")]
    /\ wpc' = [wpc EXCEPT ![t] = "done"]
    /\ UNCHANGED <<final_mapping, force, args_deduplicate, args_paired_end_dedup, threads,
                   content, prev_outputs, wloc, faults>>
    /\ UNCHANGED <<disk, search_dirs, scanned, temp_pairs, file_pairs, dpc, cvars, xvars>>

\* the environment: a source file present at discovery vanishes or becomes
\* unreadable while the targets are processed
SourceVanishes(p) ==
    /\ faults < MaxFaults
    /\ p \in disk
    /\ \E t \in Targets : wpc[t] \notin {"done", "raised"}
    /\ mpc \notin {"returned", "exited"}
    /\ disk' = disk \ {p}
    /\ faults' = faults + 1
    /\ UNCHANGED <<final_mapping, force, args_deduplicate, args_paired_end_dedup, threads,
                   content, prev_outputs, outfs, wpc, wloc, wres, removed>>
    /\ UNCHANGED <<search_dirs, scanned, temp_pairs, file_pairs, dpc, cvars, xvars>>

(***************************************************************************)
(* The runs process_target is checked on.                                  *)
(***************************************************************************)
\* the sources on disk, and the table discovery returns for them
TargetDisk ==
    {Join(DirD, NameU), Mate2Of(Join(DirD, NameU)),
     Join(DirD, NameDot), Mate2Of(Join(DirD, NameDot))}

RECURSIVE ScanHits(_, _)
ScanHits(tp, hits) ==
    IF hits = <<>> THEN tp ELSE ScanHits(ProcessR1File(tp, Head(hits)), Tail(hits))

KeyS == <<"s">>
KeyT == <<"t">>

TargetAB == <<"a", "-", "b">>
TargetA_B == <<"a", "_", "b">>
TargetC == <<"c">>

MappingChoices ==
    { (TargetAB :> <<KeyS>>),
      (TargetAB :> <<KeyS, KeyT>>),
      (TargetAB :> <<KeyS>>) @@ (TargetA_B :> <<KeyT>>),
      (TargetAB :> <<KeyT>>) @@ (TargetC :> <<KeyS>>) }

\* the texts of a pair's mate-1 and mate-2 file: equal counts, a duplicate
\* sequence in mate 1 only, unequal counts, both empty
PairTexts ==
    { <<RecA, RecA>>, <<RecA \o RecA, RecA \o RecC>>, <<RecA \o RecA, RecA>>,
      <<<<>>, <<>>>> }

\* the texts of the second pair: equal counts, unequal counts
SecondPairTexts == { <<RecC, RecC>>, <<RecA \o RecC, RecC>> }

\* the command lines: no deduplication, --deduplicate, --paired-end-dedup
DedupArgs == { <<FALSE, FALSE>>, <<TRUE, FALSE>>, <<FALSE, TRUE>> }

ContentOf(s, t) ==
    (Join(DirD, NameU) :> s[1]) @@ (Mate2Of(Join(DirD, NameU)) :> s[2])
    @@ (Join(DirD, NameDot) :> t[1]) @@ (Mate2Of(Join(DirD, NameDot)) :> t[2])

OutputPaths(m) == UNION {{R1Output(t), R2Output(t)} : t \in DOMAIN m}

\* a complete output file left by an earlier run
PreviousFile == [exists |-> TRUE, text |-> RecC, partial |-> FALSE, writer |-> <<"previous">>]

TargetStart ==
    /\ disk = TargetDisk
    /\ search_dirs = <<DirD>>
    /\ scanned = {}
    /\ temp_pairs = ScanHits(<<>>, <<Join(DirD, NameU), Join(DirD, NameDot)>>)
    /\ file_pairs = ConvertPairs(<<>>, temp_pairs)
    /\ dpc = "done"
    /\ final_mapping \in MappingChoices
    /\ force \in BOOLEAN
    /\ \E a \in DedupArgs : args_deduplicate = a[1] /\ args_paired_end_dedup = a[2]
    /\ threads \in {1, 2}
    /\ \E s \in PairTexts, t \in SecondPairTexts : content = ContentOf(s, t)
    /\ prev_outputs \in SUBSET {R1Output(TargetAB), R2Output(TargetAB)}
    /\ outfs = [p \in OutputPaths(final_mapping) |->
                    IF p \in prev_outputs THEN PreviousFile ELSE AbsentFile]
    /\ wpc = [t \in DOMAIN final_mapping |-> "queued"]
    /\ wloc = [t \in DOMAIN final_mapping |-> [mismatches |-> 0, r1_reads |-> 0]]
    /\ wres = [t \in DOMAIN final_mapping |-> NoResult]
    /\ removed = {}
    /\ faults = 0

(***************************************************************************)
(* The record loop of combine_fastq_files_streaming, one record per step.  *)
(* The code compares the size of seen_sequences with max_sequences         *)
(* (10,000,000); here the loop runs with a small value of `ceiling` in its *)
(* place so that the set fills up.                                         *)
(***************************************************************************)
MaxCeiling == 2
CeilingRecords == 2

RecG == <<"@", "a", "\n", "G", "\n", "+", "\n", "I", "\n">>

\* texts of at most n records whose sequences are A, C or G
RECURSIVE SequenceTexts(_)
SequenceTexts(n) ==
    IF n = 0 THEN {<<>>}
    ELSE LET shorter == SequenceTexts(n - 1)
         IN  shorter \cup {t \o r : t \in shorter, r \in {RecA, RecC, RecG}}

CeilingSourceLists ==
    LET files == {[readable |-> TRUE, text |-> t] : t \in SequenceTexts(CeilingRecords)}
    IN  UNION {[1..n -> files] : n \in 1..2}

\* the call has created its output and is about to open the first source
LoopStart ==
    /\ csrc \in CeilingSourceLists
    /\ cdedup \in BOOLEAN
    /\ ceiling \in 1..MaxCeiling
    /\ analysis = NoAnalysis
    /\ cst = CombineStart(cdedup)
    /\ clines = [i \in 1..Len(csrc) |-> ReadLines(csrc[i].text)]
    /\ cout = [exists |-> TRUE, text |-> <<>>]
    /\ cret = 0
    /\ cpc = "loop"
    /\ cobs = Observations(CombineStart(cdedup))

\* one iteration of `while True` that reads a whole record
ReadRecord ==
    /\ cpc = "loop"
    /\ clines # <<>>
    /\ Len(Head(clines)) >= 4
    /\ cst' = CopyRecords(SubSeq(Head(clines), 1, 4), cst, cdedup)
    /\ clines' = <<SubSeq(Head(clines), 5, Len(Head(clines)))>> \o Tail(clines)
    /\ cout' = [cout EXCEPT !.text = cst'.out]
    /\ UNCHANGED <<analysis, cobs, csrc, cdedup, cret, cpc, ceiling>>
    /\ UNCHANGED <<dvars, tvars, rvars, mvars, v2vars, yvars>>

\* the `break` at the end of a source: the next source is opened
CloseSource ==
    /\ cpc = "loop"
    /\ clines # <<>>
    /\ Len(Head(clines)) < 4
    /\ clines' = Tail(clines)
    /\ UNCHANGED <<analysis, cobs, csrc, cdedup, cout, cret, cpc, ceiling, cst>>
    /\ UNCHANGED <<dvars, tvars, rvars, mvars, v2vars, yvars>>

\* `return total_reads`
ReturnReads ==
    /\ cpc = "loop"
    /\ clines = <<>>
    /\ cret' = cst.total_reads
    /\ cpc' = "returned"
    /\ UNCHANGED <<analysis, cobs, csrc, cdedup, cout, ceiling, cst, clines>>
    /\ UNCHANGED <<dvars, tvars, rvars, mvars, v2vars, yvars>>

(***************************************************************************)
(* fuzzy_match_sample and the resolution loop of combine_fastq_files_main  *)
(***************************************************************************)
\* s.replace('_', '').replace('-', '')
CleanName(s) == Replace(Replace(s, <<"_">>, <<>>), <<"-">>, <<>>)

\* the element a `for ... if ...: return available` loop returns when hits
\* are the elements passing its test, <<>> when there is none
FirstOf(hits) == IF hits = <<>> THEN <<>> ELSE Head(hits)

\* min(matches, key=len): the first of the shortest elements
RECURSIVE Shortest(_)
Shortest(matches) ==
    IF Len(matches) = 1 THEN Head(matches)
    ELSE LET rest == Shortest(Tail(matches))
         IN  IF Len(Head(matches)) <= Len(rest) THEN Head(matches) ELSE rest

\* the function that takes the first candidate of the second pass
fuzzy_match_sample_first(sample_name, available_samples) ==
    LET name == Strip(Lower(sample_name))
        Exact(a) == Lower(a) = name
        Partial(a) ==
            \/ Contains(Lower(a), name) \/ Contains(name, Lower(a))
            \/ Contains(Basename(Lower(a)), name) \/ Contains(name, Basename(Lower(a)))
        Cleaned(a) ==
            \/ Contains(CleanName(Lower(a)), CleanName(name))
            \/ Contains(CleanName(name), CleanName(Lower(a)))
    IN  IF SelectSeq(available_samples, Exact) # <<>>
        THEN Head(SelectSeq(available_samples, Exact))
        ELSE IF SelectSeq(available_samples, Partial) # <<>>
        THEN Head(SelectSeq(available_samples, Partial))
        ELSE FirstOf(SelectSeq(available_samples, Cleaned))

\* fuzzy_match_sample(sample_name, available_samples); None is <<>>, which the
\* caller's `if fuzzy_match:` treats as it treats None
fuzzy_match_sample(sample_name, available_samples) ==
    LET name == Strip(Lower(sample_name))
        Exact(a) == Lower(a) = name
        exact == FirstOf(SelectSeq(available_samples, Exact))
        Partial(a) ==
            \/ Contains(Lower(a), name) \/ Contains(name, Lower(a))
            \/ Contains(Basename(Lower(a)), name) \/ Contains(name, Basename(Lower(a)))
        matches == SelectSeq(available_samples, Partial)
        Cleaned(a) ==
            \/ Contains(CleanName(Lower(a)), CleanName(name))
            \/ Contains(CleanName(name), CleanName(Lower(a)))
    IN  IF \E i \in 1..Len(available_samples) : Lower(available_samples[i]) = name
        THEN exact
        ELSE IF matches # <<>> THEN Shortest(matches)
        ELSE FirstOf(SelectSeq(available_samples, Cleaned))

\* available_samples = list(file_pairs.keys())
available_samples == [i \in 1..Len(file_pairs) |-> file_pairs[i].key]

\* the step that also records an exact match in fuzzy_matches
ResolveStep_RecordsExact(ms, fm, source_path) ==
    LET fuzzy_match == fuzzy_match_sample(source_path, available_samples)
        key == IF HasKey(file_pairs, source_path) THEN source_path ELSE fuzzy_match
    IN  IF key # <<>>
        THEN [matched |-> Append(ms, key),
              fuzzy |-> {e \in fm : e[1] # source_path} \cup {<<source_path, key>>}]
        ELSE [matched |-> ms, fuzzy |-> fm]

\* the body of `for source_path in source_paths`: matched_sources and
\* fuzzy_matches after it
ResolveStep(ms, fm, source_path) ==
    IF HasKey(file_pairs, source_path)
    THEN [matched |-> Append(ms, source_path), fuzzy |-> fm]
    ELSE LET fuzzy_match == fuzzy_match_sample(source_path, available_samples)
         IN  IF fuzzy_match # <<>>
             THEN [matched |-> Append(ms, fuzzy_match),
                   fuzzy |-> {e \in fm : e[1] # source_path}
                                \cup {<<source_path, fuzzy_match>>}]
             ELSE [matched |-> ms, fuzzy |-> fm]

\* the assignment made for every target, resolved sources or not
StoreTarget_Always(fm, target, ms) == (target :> ms) @@ fm

\* `if matched_sources: final_mapping[target] = matched_sources`
StoreTarget(fm, target, ms) == IF ms # <<>> THEN (target :> ms) @@ fm ELSE fm

(***************************************************************************)
(* The mappings and tables resolution is run on.                           *)
(***************************************************************************)
MaxDeclared == 3

NameAb == <<"A", "b", "_", "R", "1", ".", "f", "a", "s", "t", "q">>
NameAbX == <<"a", "b", "_", "x", "_", "R", "1", ".", "f", "a", "s", "t", "q">>
NameCd == <<"c", "d", "_", "R", "1", ".", "f", "a", "s", "t", "q">>
NameA == <<"a", "_", "R", "1", ".", "f", "a", "s", "t", "q">>

\* the mate-1 files discovery found, in scan order
ResolveHits ==
    <<Join(DirD, NameA), Join(DirD, NameAbX), Join(DirD, NameAb), Join(DirD, NameCd)>>

\* declared sources: an exact key, a key in another case, a part of two keys,
\* a part of one key, a key with a '-' put in, and a name that matches nothing
DeclaredChoices ==
    { <<"A", "b">>, <<"a", "b">>, <<"b">>, <<"b", "_", "x">>, <<"c", "-", "d">>,
      <<"z", "z">> }

\* the declared sources of the first target
DeclaredLists == UNION {[1..n -> DeclaredChoices] : n \in 1..MaxDeclared}

\* the declared sources of the second target: none, one that does not
\* resolve, an exact one, two fuzzy ones
SecondDeclaredLists ==
    { <<>>, << <<"z", "z">> >>, << <<"A", "b">> >>, << <<"a", "b">>, <<"c", "-", "d">> >> }

ResolveStart ==
    /\ disk = {ResolveHits[i] : i \in 1..Len(ResolveHits)}
                \cup {Mate2Of(ResolveHits[i]) : i \in 1..Len(ResolveHits)}
    /\ search_dirs = <<DirD>>
    /\ scanned = {}
    /\ temp_pairs = ScanHits(<<>>, ResolveHits)
    /\ file_pairs = ConvertPairs(<<>>, temp_pairs)
    /\ dpc = "done"
    /\ \E s1 \in DeclaredLists, s2 \in SecondDeclaredLists :
         mapping = << [target |-> TargetAB, sources |-> s1],
                      [target |-> TargetC, sources |-> s2] >>
    /\ rtarget = 1
    /\ rsource = 1
    /\ matched_sources = <<>>
    /\ fuzzy_matches = {}
    /\ final_mapping = <<>>
    /\ mpc = "resolve"

\* one iteration of `for source_path in source_paths`
ResolveSource ==
    /\ mpc = "resolve"
    /\ rtarget <= Len(mapping)
    /\ rsource <= Len(mapping[rtarget].sources)
    /\ LET r == ResolveStep(matched_sources, fuzzy_matches, mapping[rtarget].sources[rsource])
       IN  /\ matched_sources' = r.matched
           /\ fuzzy_matches' = r.fuzzy
    /\ rsource' = rsource + 1
    /\ UNCHANGED <<mapping, rtarget, final_mapping, mpc>>
    /\ UNCHANGED <<dvars, cvars, kvars, v2vars, yvars>>
    /\ UNCHANGED <<force, args_deduplicate, args_paired_end_dedup, threads, content,
                   prev_outputs, outfs, wpc, wloc, wres, removed, faults>>
    /\ UNCHANGED <<dry_run, invalid_targets, combination_stats, pending_at_interrupt,
                   caught, exit_status>>

\* the end of an iteration of `for target, source_paths in mapping.items()`
StoreMatched ==
    /\ mpc = "resolve"
    /\ rtarget <= Len(mapping)
    /\ rsource > Len(mapping[rtarget].sources)
    /\ final_mapping' = StoreTarget(final_mapping, mapping[rtarget].target, matched_sources)
    /\ rtarget' = rtarget + 1
    /\ rsource' = 1
    /\ matched_sources' = <<>>
    /\ UNCHANGED <<mapping, fuzzy_matches, mpc>>
    /\ UNCHANGED <<dvars, cvars, kvars, v2vars, yvars>>
    /\ UNCHANGED <<force, args_deduplicate, args_paired_end_dedup, threads, content,
                   prev_outputs, outfs, wpc, wloc, wres, removed, faults>>
    /\ UNCHANGED <<dry_run, invalid_targets, combination_stats, pending_at_interrupt,
                   caught, exit_status>>

\* after the loop: `if not final_mapping: return`, else on to pre-validation
FinishResolution ==
    /\ mpc = "resolve"
    /\ rtarget > Len(mapping)
    /\ mpc' = IF DOMAIN final_mapping = {} THEN "returned" ELSE "resolved"
    /\ UNCHANGED <<mapping, rtarget, rsource, matched_sources, fuzzy_matches>>
    /\ UNCHANGED <<dvars, cvars, tvars, kvars, v2vars, yvars>>
    /\ UNCHANGED <<dry_run, invalid_targets, combination_stats, pending_at_interrupt,
                   caught, exit_status>>

(***************************************************************************)
(* combine_fastq_files_main from pre-validation to its return, and the     *)
(* exit of main().  The worker pool runs the process_target actions above; *)
(* the main thread collects the futures' results.                          *)
(***************************************************************************)
\* pre-validation that looks at the R1 file of each source only
InvalidTargets_R1Only(fm) ==
    {t \in DOMAIN fm :
        \E i \in 1..Len(fm[t]) : Lookup(file_pairs, fm[t][i]).R1 \notin disk}

\* the invalid_targets set: the targets with a source whose R1 or R2 file
\* does not exist or is not readable
InvalidTargets(fm) ==
    {t \in DOMAIN fm :
        \E i \in 1..Len(fm[t]) :
            \/ Lookup(file_pairs, fm[t][i]).R1 \notin disk
            \/ Lookup(file_pairs, fm[t][i]).R2 \notin disk}

\* `del final_mapping[target]` for every invalid target
DeleteTargets(fm, invalid) == [t \in DOMAIN fm \ invalid |-> fm[t]]

\* the tasks the pool has not finished
Unfinished == {t \in Targets : wpc[t] \notin {"done", "raised"}}

\* combination_stats[res['target']] = res
CollectResult(stats, t) == (t :> wres[t]) @@ stats

\* the function that goes on to combine in a dry run too
AfterValidation_Combines(dry) == "pool"

\* `if dry_run: ... return` after the pre-validation loop
AfterValidation(dry) == IF dry THEN "returned" ELSE "pool"

\* the run with the mapping resolved and the sources still to be validated
MainStart ==
    /\ disk = TargetDisk
    /\ search_dirs = <<DirD>>
    /\ scanned = {}
    /\ temp_pairs = ScanHits(<<>>, <<Join(DirD, NameU), Join(DirD, NameDot)>>)
    /\ file_pairs = ConvertPairs(<<>>, temp_pairs)
    /\ dpc = "done"
    /\ final_mapping \in MappingChoices
    /\ force \in BOOLEAN
    /\ args_deduplicate \in BOOLEAN
    /\ args_paired_end_dedup = FALSE
    /\ threads \in {1, 2}
    /\ \E s \in {<<RecA, RecA>>, <<RecA \o RecA, RecA>>} :
         content = ContentOf(s, <<RecC, RecC>>)
    /\ prev_outputs \in {{}, {R1Output(TargetAB), R2Output(TargetAB)}}
    /\ outfs = [p \in OutputPaths(final_mapping) |->
                    IF p \in prev_outputs THEN PreviousFile ELSE AbsentFile]
    /\ wpc = [t \in DOMAIN final_mapping |-> "unsubmitted"]
    /\ wloc = [t \in DOMAIN final_mapping |-> [mismatches |-> 0, r1_reads |-> 0]]
    /\ wres = [t \in DOMAIN final_mapping |-> NoResult]
    /\ removed = {}
    /\ faults = 0
    /\ mpc = "validate"
    /\ dry_run \in BOOLEAN
    /\ invalid_targets = {}
    /\ combination_stats = <<>>
    /\ pending_at_interrupt = {}
    /\ caught = "none"
    /\ exit_status = -1

\* the pre-validation loop; in a dry run the function returns after it,
\* otherwise the invalid targets are deleted, the output directory is made
\* and every remaining target is submitted to the pool
PreValidate ==
    /\ mpc = "validate"
    /\ invalid_targets' = InvalidTargets(final_mapping)
    /\ mpc' = AfterValidation(dry_run)
    /\ IF mpc' = "returned"
       THEN UNCHANGED <<final_mapping, wpc>>
       ELSE /\ final_mapping' = DeleteTargets(final_mapping, invalid_targets')
            /\ wpc' = [t \in DOMAIN wpc |->
                          IF t \in invalid_targets' THEN "removed" ELSE "queued"]
    /\ UNCHANGED <<force, args_deduplicate, args_paired_end_dedup, threads, content,
                   prev_outputs, outfs, wloc, wres, removed, faults>>
    /\ UNCHANGED <<dry_run, combination_stats, pending_at_interrupt, caught, exit_status>>
    /\ UNCHANGED <<dvars, cvars, kvars, rvars, v2vars, yvars>>

\* one iteration of `for f in as_completed(futures)`: f.result() returns the
\* result dict, or raises what process_target raised; the exception leaves
\* the loop and the function
Collect(t) ==
    /\ mpc = "pool"
    /\ t \notin DOMAIN combination_stats
    /\ wpc[t] \in {"done", "raised"}
    /\ IF wpc[t] = "done"
       THEN /\ combination_stats' = CollectResult(combination_stats, t)
            /\ UNCHANGED <<mpc, caught>>
       ELSE /\ mpc' = "unwinding"
            /\ caught' = "Exception"
            /\ UNCHANGED combination_stats
    /\ UNCHANGED <<dry_run, invalid_targets, pending_at_interrupt, exit_status>>
    /\ UNCHANGED <<dvars, cvars, tvars, kvars, rvars, v2vars, yvars>>

\* every future was collected: the summary and the report are written and
\* combine_fastq_files_main returns
WriteReports ==
    /\ mpc = "pool"
    /\ Targets \subseteq DOMAIN combination_stats
    /\ mpc' = "returned"
    /\ UNCHANGED <<dry_run, invalid_targets, combination_stats, pending_at_interrupt,
                   caught, exit_status>>
    /\ UNCHANGED <<dvars, cvars, tvars, kvars, rvars, v2vars, yvars>>

\* the user interrupts the run while the main thread waits for the pool:
\* KeyboardInterrupt is raised in the main thread and leaves the function
Interrupt ==
    /\ mpc = "pool"
    /\ Unfinished # {}
    /\ mpc' = "unwinding"
    /\ caught' = "KeyboardInterrupt"
    /\ pending_at_interrupt' = {t \in Targets : wpc[t] = "queued"}
    /\ UNCHANGED <<dry_run, invalid_targets, combination_stats, exit_status>>
    /\ UNCHANGED <<dvars, cvars, tvars, kvars, rvars, v2vars, yvars>>

\* the process exits.  After a return main() returns None and sys.exit(None)
\* gives status 0.  An exception first leaves the `with ThreadPoolExecutor`
\* block, whose exit waits until the pool has run every submitted task; then
\* main() logs it and calls sys.exit(1).
ExitProcess ==
    /\ \/ mpc = "returned" /\ exit_status' = 0
       \/ mpc = "unwinding" /\ Unfinished = {} /\ exit_status' = 1
    /\ mpc' = "exited"
    /\ UNCHANGED <<dry_run, invalid_targets, combination_stats, pending_at_interrupt, caught>>
    /\ UNCHANGED <<dvars, cvars, tvars, kvars, rvars, v2vars, yvars>>


(***************************************************************************)
(* process_target of src/v2/fastq_combiner_v2.py                           *)
(*                                                                         *)
(* An output file is [exists, gz, text, mtime, opened]: gz says that its   *)
(* bytes are a gzip stream, text is what the stream decompresses to (the   *)
(* raw bytes when gz is FALSE), mtime is the time stamp of the gzip header *)
(* and opened says that the call opened the file for writing.              *)
(***************************************************************************)
\* md5sum(filename): the digest stands for the bytes it was computed from;
\* open() raises when the file does not exist
md5sum(file) ==
    IF file.exists
    THEN [digest_of |-> [gz |-> file.gz, text |-> file.text, mtime |-> file.mtime]]
    ELSE [raised |-> "FileNotFoundError"]

\* the loop of count_reads_fastq: the lines at index 0, 4, 8, ... that start
\* with '@'
RECURSIVE CountAtLines(_)
CountAtLines(lines) ==
    IF lines = <<>> THEN 0
    ELSE (IF StartsWith(lines[1], <<"@">>) THEN 1 ELSE 0)
         + CountAtLines(SubSeq(lines, 5, Len(lines)))

\* count_reads_fastq of a plain source file
CountSource(text) == CountAtLines(ReadLines(text))

\* count_reads_fastq of a '.gz' output: any exception (no such file, not a
\* gzip stream) gives 0
count_reads_fastq(file) ==
    IF file.exists /\ file.gz THEN CountAtLines(ReadLines(file.text)) ELSE 0

RECURSIVE SumCounts(_)
SumCounts(texts) ==
    IF texts = <<>> THEN 0 ELSE CountSource(Head(texts)) + SumCounts(Tail(texts))

RECURSIVE Concat(_)
Concat(texts) == IF texts = <<>> THEN <<>> ELSE Head(texts) \o Concat(Tail(texts))

\* the gzip header written at the time of the call; the files that were
\* there before carry an earlier one
Now == 1

\* combine_fastq_files(source_files, output_file): the output is opened 'wb'
\* through gzip and every source is copied into it
combine_fastq_files(source_files) ==
    [file |-> [exists |-> TRUE, gz |-> TRUE, text |-> Concat(source_files),
               mtime |-> Now, opened |-> TRUE],
     total_reads |-> SumCounts(source_files)]

already_done_any(outs) == \E i \in 1..2 : outs[i].exists

\* already_done = all(os.path.exists(f) for f in [r1_output, r2_output])
already_done(outs) == \A i \in 1..2 : outs[i].exists

\* the dict returned for outputs that are there already
ResumeResult(outs) ==
    IF "raised" \in DOMAIN md5sum(outs[1]) THEN md5sum(outs[1])
    ELSE IF "raised" \in DOMAIN md5sum(outs[2]) THEN md5sum(outs[2])
    ELSE [total_reads |-> count_reads_fastq(outs[1]),
          md5_r1 |-> md5sum(outs[1]), md5_r2 |-> md5sum(outs[2])]

\* the dict returned by a dry run
DryRunResult == [total_reads |-> 0, md5_r1 |-> "", md5_r2 |-> ""]

Absent == [exists |-> FALSE, gz |-> FALSE, text |-> <<>>, mtime |-> 0, opened |-> FALSE]

OutputBefore(gz, text) ==
    [exists |-> TRUE, gz |-> gz, text |-> text, mtime |-> 0, opened |-> FALSE]

\* an output file before the call: none, a gzip file of one record, a gzip
\* file whose first line is no header, and a file that is not gzip at all
OutputChoices ==
    {Absent, OutputBefore(TRUE, RecC), OutputBefore(TRUE, RecNoAt),
     OutputBefore(FALSE, RecC)}

V2SourceChoices ==
    {[R1 |-> <<RecA>>, R2 |-> <<RecA>>],
     [R1 |-> <<RecA, RecG>>, R2 |-> <<RecA, RecNoAt>>]}

ResumeStart ==
    /\ v2_resume \in BOOLEAN
    /\ v2_dry_run \in BOOLEAN
    /\ v2_sources \in V2SourceChoices
    /\ v2_before \in [1..2 -> OutputChoices]
    /\ v2_outputs = v2_before
    /\ v2_result = <<>>
    /\ v2_pc = "call"

\* the head of process_target: which of the three paths the call takes
V2Enter ==
    /\ v2_pc = "call"
    /\ v2_pc' = IF v2_resume /\ already_done(v2_outputs) THEN "resume"
                ELSE IF v2_dry_run THEN "dry_run"
                ELSE "combine_r1"
    /\ UNCHANGED <<v2_resume, v2_dry_run, v2_sources, v2_before, v2_outputs, v2_result>>
    /\ UNCHANGED <<dvars, cvars, tvars, kvars, rvars, mvars, yvars>>

\* `if resume and already_done:` the existing outputs are read, not written
V2Skip ==
    /\ v2_pc = "resume"
    /\ v2_result' = ResumeResult(v2_outputs)
    /\ v2_pc' = "returned"
    /\ UNCHANGED <<v2_resume, v2_dry_run, v2_sources, v2_before, v2_outputs>>
    /\ UNCHANGED <<dvars, cvars, tvars, kvars, rvars, mvars, yvars>>

\* `if dry_run:`
V2DryRun ==
    /\ v2_pc = "dry_run"
    /\ v2_result' = DryRunResult
    /\ v2_pc' = "returned"
    /\ UNCHANGED <<v2_resume, v2_dry_run, v2_sources, v2_before, v2_outputs>>
    /\ UNCHANGED <<dvars, cvars, tvars, kvars, rvars, mvars, yvars>>

\* r1_reads = combine_fastq_files(r1_sources, r1_output, ...)
V2CombineR1 ==
    /\ v2_pc = "combine_r1"
    /\ v2_outputs' = [v2_outputs EXCEPT ![1] = combine_fastq_files(v2_sources.R1).file]
    /\ v2_result' = [total_reads |-> combine_fastq_files(v2_sources.R1).total_reads]
    /\ v2_pc' = "combine_r2"
    /\ UNCHANGED <<v2_resume, v2_dry_run, v2_sources, v2_before>>
    /\ UNCHANGED <<dvars, cvars, tvars, kvars, rvars, mvars, yvars>>

\* r2_reads = combine_fastq_files(r2_sources, r2_output, ...); a mismatch of
\* the two counts is only logged
V2CombineR2 ==
    /\ v2_pc = "combine_r2"
    /\ v2_outputs' = [v2_outputs EXCEPT ![2] = combine_fastq_files(v2_sources.R2).file]
    /\ v2_pc' = "checksum"
    /\ UNCHANGED <<v2_resume, v2_dry_run, v2_sources, v2_before, v2_result>>
    /\ UNCHANGED <<dvars, cvars, tvars, kvars, rvars, mvars, yvars>>

\* md5_r1 = md5sum(r1_output); md5_r2 = md5sum(r2_output); return
V2Return ==
    /\ v2_pc = "checksum"
    /\ v2_result' = [total_reads |-> v2_result.total_reads,
                     md5_r1 |-> md5sum(v2_outputs[1]), md5_r2 |-> md5sum(v2_outputs[2])]
    /\ v2_pc' = "returned"
    /\ UNCHANGED <<v2_resume, v2_dry_run, v2_sources, v2_before, v2_outputs>>
    /\ UNCHANGED <<dvars, cvars, tvars, kvars, rvars, mvars, yvars>>

(***************************************************************************)
(* combine_fastq_files_streaming called with its analysis options          *)
(***************************************************************************)
\* a record whose header holds a barcode and whose sequence is an adapter
RecAdapter ==
    <<"@", "B", "A", "R", "C", "O", "D", "E", "\n">>
    \o common_adapters[1] \o <<"\n", "+", "\n", "I", "\n">>

AnalysisTexts == {RecAdapter, RecA \o RecAdapter, RecC, RecAdapter \o RecC}

AnalysisSourceLists ==
    LET files == {[readable |-> TRUE, text |-> t] : t \in AnalysisTexts}
    IN  UNION {[1..n -> files] : n \in 1..2}

AnalysisChoices ==
    [check_barcodes : BOOLEAN, gc_analysis : BOOLEAN, adapter_check : BOOLEAN]

AnalysisStart ==
    /\ csrc \in AnalysisSourceLists
    /\ cdedup \in BOOLEAN
    /\ analysis \in AnalysisChoices
    /\ cout = [exists |-> FALSE, text |-> <<>>]
    /\ cret = 0
    /\ cpc = "call"
    /\ cobs = Observations(CombineStart(cdedup))

(***************************************************************************)
(* The same combination run more than once.                                *)
(***************************************************************************)
MaxClock == 1

\* the bytes gzip.open(output_file, 'wt') leaves on disk: a gzip member whose
\* header holds the time of the call and whose body is the compressed text
GzipBytes(mtime, text) == [mtime |-> mtime, text |-> text]

\* calculate_file_checksum(file_path): the MD5 digest of the bytes of the
\* file; the digest stands for the bytes it was computed from
calculate_file_checksum(bytes) == [md5_of |-> bytes]

RepeatStart ==
    /\ csrc \in {l \in SourceLists : \A i \in 1..Len(l) : l[i].readable}
    /\ cdedup \in BOOLEAN
    /\ analysis = NoAnalysis
    /\ cout = [exists |-> FALSE, text |-> <<>>]
    /\ cret = 0
    /\ cpc = "call"
    /\ cobs = Observations(CombineStart(cdedup))
    /\ clock = 0
    /\ runs = <<>>

\* a second passes
Tick ==
    /\ clock < MaxClock
    /\ clock' = clock + 1
    /\ UNCHANGED <<runs, name_in, name_out, npc>>
    /\ UNCHANGED <<dvars, cvars, tvars, kvars, rvars, mvars, v2vars>>

\* the output of the run before is removed and the same source list is
\* combined again into a new file
RunCombine ==
    /\ Len(runs) < 2
    /\ LET r == combine_fastq_files_streaming(csrc, cdedup)
           bytes == GzipBytes(clock, r.out)
       IN  /\ cout' = [exists |-> TRUE, text |-> r.out]
           /\ cret' = r.total_reads
           /\ cobs' = r.observed
           /\ runs' = Append(runs, [file |-> bytes, text |-> r.out,
                                    checksum |-> calculate_file_checksum(bytes)])
    /\ cpc' = "returned"
    /\ UNCHANGED <<csrc, cdedup, analysis, clock, name_in, name_out, npc>>
    /\ UNCHANGED <<dvars, tvars, kvars, rvars, mvars, v2vars>>

(***************************************************************************)
(* The functions that derive names, called on their own.                   *)
(***************************************************************************)
\* s.strip('_')
RECURSIVE StripUnderscores(_)
StripUnderscores(s) ==
    IF s = <<>> THEN s
    ELSE IF Head(s) = "_" THEN StripUnderscores(Tail(s))
    ELSE IF s[Len(s)] = "_" THEN StripUnderscores(SubSeq(s, 1, Len(s) - 1))
    ELSE s

\* while "__" in clean: clean = clean.replace("__", "_")
RECURSIVE Collapse(_)
Collapse(clean) ==
    IF Contains(clean, <<"_", "_">>) THEN Collapse(Replace(clean, <<"_", "_">>, <<"_">>))
    ELSE clean

\* sanitize_sample_name of src/v2/fastq_combiner_v2.py
v2_sanitize_sample_name(name) ==
    LET cut == IF Contains(name, sUS) THEN SplitFirst(name, sUS) ELSE name
        clean == Replace(Replace(cut, <<" ">>, <<"_">>), <<"-">>, <<"_">>)
    IN  StripUnderscores(Collapse(clean))

MaxNameLen == 3

NameChars == {"a", "S", "1", "_", "-", " ", "\t"}

RECURSIVE Strings(_)
Strings(n) ==
    IF n = 0 THEN {<<>>}
    ELSE LET shorter == Strings(n - 1)
         IN  shorter \cup {Append(s, c) : s \in {t \in shorter : Len(t) = n - 1}, c \in NameChars}

\* the target names read_mapping_file delivers: stripped and not empty
TargetNames == {s \in Strings(MaxNameLen) : s # <<>> /\ Strip(s) = s}

\* mate-1 file names <X>_S<number>_R1_<rest>
Stems == {<<"s">>, <<"a", "_", "b">>, <<"a", "_", "S", "b">>, <<"a", "_", "S">>}

IndexNumbers == {<<"1">>, <<"1", "2">>}

IlluminaName(x, number) ==
    x \o sUS \o number \o sUR1U \o <<"0", "0", "1">> \o sFastqGz

IlluminaNames == {IlluminaName(x, n) : x \in Stems, n \in IndexNumbers}

NamesStart ==
    /\ name_in \in TargetNames \cup IlluminaNames
    /\ name_out = <<>>
    /\ npc = "call"

\* clean_target = sanitize_sample_name(target) and the two output names
SanitizeName ==
    /\ npc = "call"
    /\ name_in \in TargetNames
    /\ name_out' = [fn |-> "sanitize_sample_name",
                    value |-> sanitize_sample_name(name_in),
                    r1_output |-> R1Output(name_in), r2_output |-> R2Output(name_in)]
    /\ npc' = "returned"
    /\ UNCHANGED <<name_in, clock, runs>>
    /\ UNCHANGED <<dvars, cvars, tvars, kvars, rvars, mvars, v2vars>>

\* clean_target = sanitize_sample_name(target) in the v2 program
SanitizeNameV2 ==
    /\ npc = "call"
    /\ name_in \in TargetNames
    /\ name_out' = [fn |-> "v2_sanitize_sample_name",
                    value |-> v2_sanitize_sample_name(name_in)]
    /\ npc' = "returned"
    /\ UNCHANGED <<name_in, clock, runs>>
    /\ UNCHANGED <<dvars, cvars, tvars, kvars, rvars, mvars, v2vars>>

\* the sanitized name is given to sanitize_sample_name once more
SanitizeAgainV2 ==
    /\ npc = "returned"
    /\ name_out.fn = "v2_sanitize_sample_name"
    /\ name_out' = [fn |-> "again", first |-> name_out.value,
                    value |-> v2_sanitize_sample_name(name_out.value)]
    /\ npc' = "again"
    /\ UNCHANGED <<name_in, clock, runs>>
    /\ UNCHANGED <<dvars, cvars, tvars, kvars, rvars, mvars, v2vars>>

\* the sample_base the scan loop extracts from the name of a mate-1 file
ExtractSampleBase ==
    /\ npc = "call"
    /\ name_in \in IlluminaNames
    /\ name_out' = [fn |-> "sample_base", value |-> SampleBase(name_in)]
    /\ npc' = "returned"
    /\ UNCHANGED <<name_in, clock, runs>>
    /\ UNCHANGED <<dvars, cvars, tvars, kvars, rvars, mvars, v2vars>>
(***************************************************************************)
(* Specifications                                                          *)
(***************************************************************************)
vars == <<dvars, cvars, tvars, xvars>>

DiscoverIdle ==
    /\ disk = {}
    /\ search_dirs = <<>>
    /\ scanned = {}
    /\ temp_pairs = <<>>
    /\ file_pairs = <<>>
    /\ dpc = "idle"

CombineIdle ==
    /\ csrc = <<>>
    /\ cdedup = FALSE
    /\ cout = [exists |-> FALSE, text |-> <<>>]
    /\ cret = 0
    /\ cpc = "idle"
    /\ analysis = NoAnalysis
    /\ cobs = Observations(CombineStart(FALSE))

TargetIdle ==
    /\ final_mapping = <<>>
    /\ force = FALSE
    /\ args_deduplicate = FALSE
    /\ args_paired_end_dedup = FALSE
    /\ threads = 0
    /\ content = <<>>
    /\ prev_outputs = {}
    /\ outfs = <<>>
    /\ wpc = <<>>
    /\ wloc = <<>>
    /\ wres = <<>>
    /\ removed = {}
    /\ faults = 0

LoopIdle ==
    /\ ceiling = max_sequences
    /\ cst = <<>>
    /\ clines = <<>>

ResolveIdle ==
    /\ mapping = <<>>
    /\ rtarget = 0
    /\ rsource = 0
    /\ matched_sources = <<>>
    /\ fuzzy_matches = {}

MainIdle ==
    /\ mpc = "idle"
    /\ dry_run = FALSE
    /\ invalid_targets = {}
    /\ combination_stats = <<>>
    /\ pending_at_interrupt = {}
    /\ caught = "none"
    /\ exit_status = -1

RepeatIdle ==
    /\ clock = 0
    /\ runs = <<>>

NamesIdle ==
    /\ name_in = <<>>
    /\ name_out = <<>>
    /\ npc = "idle"

ResumeIdle ==
    /\ v2_resume = FALSE
    /\ v2_dry_run = FALSE
    /\ v2_sources = <<>>
    /\ v2_before = <<>>
    /\ v2_outputs = <<>>
    /\ v2_result = <<>>
    /\ v2_pc = "idle"

\* find_fastq_files_fast run on every disk and search_dirs choice
DiscoverInit ==
    DiscoverStart /\ CombineIdle /\ TargetIdle /\ LoopIdle /\ ResolveIdle /\ MainIdle /\ ResumeIdle /\ RepeatIdle /\ NamesIdle

DiscoverNext == ScanFile \/ FinishScan

SpecDiscover == DiscoverInit /\ [][DiscoverNext]_vars

\* combine_fastq_files_streaming called on every list of sources
CombineInit ==
    CombineCallStart /\ DiscoverIdle /\ TargetIdle /\ LoopIdle /\ ResolveIdle /\ MainIdle /\ ResumeIdle /\ RepeatIdle /\ NamesIdle

CombineNext == CombineCall

SpecCombine == CombineInit /\ [][CombineNext]_vars

\* the thread pool of combine_fastq_files_main running process_target on the
\* targets of final_mapping
Init == TargetStart /\ CombineIdle /\ LoopIdle /\ ResolveIdle /\ MainIdle /\ ResumeIdle /\ RepeatIdle /\ NamesIdle

Next ==
    \/ \E t \in Targets : CheckTarget(t)
    \/ \E t \in Targets : CombineR1(t)
    \/ \E t \in Targets : CombineR2(t)
    \/ \E t \in Targets : CleanUp(t)
    \/ \E p \in TargetDisk : SourceVanishes(p)

Spec == Init /\ [][Next]_vars


\* the record loop of combine_fastq_files_streaming run with a small ceiling
LoopInit == LoopStart /\ DiscoverIdle /\ TargetIdle /\ ResolveIdle /\ MainIdle /\ ResumeIdle /\ RepeatIdle /\ NamesIdle

LoopNext == ReadRecord \/ CloseSource \/ ReturnReads

SpecLoop == LoopInit /\ [][LoopNext]_vars

\* the resolution loop of combine_fastq_files_main run on every mapping
ResolveInit ==
    /\ ResolveStart
    /\ CombineIdle /\ LoopIdle /\ ResumeIdle /\ RepeatIdle /\ NamesIdle
    /\ force = FALSE /\ args_deduplicate = FALSE /\ args_paired_end_dedup = FALSE
    /\ threads = 0 /\ content = <<>> /\ prev_outputs = {} /\ outfs = <<>>
    /\ wpc = <<>> /\ wloc = <<>> /\ wres = <<>> /\ removed = {} /\ faults = 0
    /\ dry_run = FALSE /\ invalid_targets = {} /\ combination_stats = <<>>
    /\ pending_at_interrupt = {} /\ caught = "none" /\ exit_status = -1

ResolveNext == ResolveSource \/ StoreMatched \/ FinishResolution

SpecResolve == ResolveInit /\ [][ResolveNext]_vars

\* combine_fastq_files_main from pre-validation on, under main()
MainInit == MainStart /\ CombineIdle /\ LoopIdle /\ ResolveIdle /\ ResumeIdle /\ RepeatIdle /\ NamesIdle

MainNext ==
    \/ PreValidate
    \/ \E t \in Targets : CheckTarget(t)
    \/ \E t \in Targets : CombineR1(t)
    \/ \E t \in Targets : CombineR2(t)
    \/ \E t \in Targets : CleanUp(t)
    \/ \E p \in TargetDisk : SourceVanishes(p)
    \/ \E t \in Targets : Collect(t)
    \/ WriteReports
    \/ Interrupt
    \/ ExitProcess

SpecMain == MainInit /\ [][MainNext]_vars

\* process_target of the v2 program called once on every choice of options,
\* sources and earlier outputs
ResumeInit ==
    ResumeStart /\ DiscoverIdle /\ CombineIdle /\ TargetIdle /\ LoopIdle /\ ResolveIdle /\ MainIdle /\ RepeatIdle /\ NamesIdle

ResumeNext == V2Enter \/ V2Skip \/ V2DryRun \/ V2CombineR1 \/ V2CombineR2 \/ V2Return

SpecResume == ResumeInit /\ [][ResumeNext]_vars

\* combine_fastq_files_streaming called once under every choice of the
\* analysis options
AnalysisInit ==
    /\ AnalysisStart
    /\ DiscoverIdle /\ TargetIdle /\ LoopIdle /\ ResolveIdle /\ MainIdle /\ ResumeIdle
    /\ RepeatIdle /\ NamesIdle

AnalysisNext == CombineCall

SpecAnalysis == AnalysisInit /\ [][AnalysisNext]_vars

\* one source list combined twice while the clock runs
RepeatInit ==
    /\ RepeatStart
    /\ DiscoverIdle /\ TargetIdle /\ LoopIdle /\ ResolveIdle /\ MainIdle /\ ResumeIdle
    /\ NamesIdle

RepeatNext == Tick \/ RunCombine

SpecRepeat == RepeatInit /\ [][RepeatNext]_vars

\* the name functions called on every name of a bounded set
NamesInit ==
    /\ NamesStart
    /\ DiscoverIdle /\ CombineIdle /\ TargetIdle /\ LoopIdle /\ ResolveIdle /\ MainIdle
    /\ ResumeIdle /\ RepeatIdle

NamesNext == SanitizeName \/ SanitizeNameV2 \/ SanitizeAgainV2 \/ ExtractSampleBase

SpecNames == NamesInit /\ [][NamesNext]_vars
(***************************************************************************)
(* Properties of combine_fastq_files_streaming (SpecCombine)               *)
(***************************************************************************)
CombineDone == cpc \in {"returned", "raised"}

AllReadable == \A i \in 1..Len(csrc) : csrc[i].readable

RECURSIVE SumReads(_)
SumReads(files) ==
    IF files = <<>> THEN 0 ELSE count_reads_fast(Head(files)) + SumReads(Tail(files))

\* the complete records of a text: its lines, four by four
RECURSIVE Records(_)
Records(lines) ==
    IF Len(lines) < 4 THEN <<>>
    ELSE <<SubSeq(lines, 1, 4)>> \o Records(SubSeq(lines, 5, Len(lines)))

\* the complete records of the readable sources, in list order
RECURSIVE SourceRecords(_)
SourceRecords(files) ==
    IF files = <<>> THEN <<>>
    ELSE (IF Head(files).readable THEN Records(ReadLines(Head(files).text)) ELSE <<>>)
         \o SourceRecords(Tail(files))

\* C1: with deduplication disabled and every input readable, the call
\* completes without error and count_reads_fast of the output equals the sum
\* of count_reads_fast over the inputs.
C1_OutputCountIsSumOfInputCounts ==
    (CombineDone /\ ~cdedup /\ AllReadable) =>
        /\ cpc = "returned"
        /\ count_reads_fast([readable |-> TRUE, text |-> cout.text]) = SumReads(csrc)

\* C2: with no filter applied, the records of the output are exactly the
\* complete records of the inputs, concatenated in input-list order.
C2_OutputIsConcatenationOfRecords ==
    (cpc = "returned" /\ ~cdedup /\ AllReadable) =>
        Records(ReadLines(cout.text)) = SourceRecords(csrc)

\* C9: an input that cannot be opened or read is skipped alone: the call
\* still returns, having copied the complete records of every other input.
C9_UnreadableInputSkippedAlone ==
    (CombineDone /\ ~cdedup /\ ~AllReadable) =>
        /\ cpc = "returned"
        /\ cret = Len(SourceRecords(csrc))

(***************************************************************************)
(* Properties of find_fastq_files_fast (SpecDiscover)                      *)
(***************************************************************************)
Range(s) == {s[i] : i \in 1..Len(s)}

\* a mate-2 file of r1_file exists: some candidate other than r1_file itself
HasMate2OnDisk(r1_file) ==
    \E c \in Range(R2Candidates(r1_file)) \ {r1_file} : c \in disk

\* C3: a mate-1 file for which no mate-2 file exists on disk is not in the
\* returned table, under any key.
C3_LoneMate1Excluded ==
    dpc = "done" =>
        \A i \in 1..Len(file_pairs) : HasMate2OnDisk(file_pairs[i].R1)

\* the mate-1 files the scan met whose mate-2 file exists
PairedMate1 == {e[2] : e \in {x \in scanned : Mate2Of(x[2]) \in disk}}

\* those of them that share their short SampleKey with another one
Colliding ==
    {p \in PairedMate1 :
        \E q \in PairedMate1 :
            q # p /\ SampleBase(Basename(q)) = SampleBase(Basename(p))}

\* C7: every pair of a set of mate-1 files that derive the same short
\* SampleKey is in the returned table, under the short key or under the
\* absolute path of its mate-1 file.
C7_CollidingPairsAllKept ==
    dpc = "done" =>
        \A p \in Colliding :
            \E i \in 1..Len(file_pairs) :
                /\ file_pairs[i].R1 = Abspath(p)
                /\ file_pairs[i].R2 = Abspath(Mate2Of(p))
                /\ file_pairs[i].key \in {SampleBase(Basename(p)), Abspath(p)}

\* three colliding pairs were scanned and the fallback key was used
C7_Witness ==
    /\ dpc = "done"
    /\ Cardinality(Colliding) >= 3
    /\ \E i \in 1..Len(file_pairs) : file_pairs[i].key = file_pairs[i].R1

(***************************************************************************)
(* Properties of process_target (Spec)                                     *)
(***************************************************************************)
\* count_reads_fast of the text of a source path
TextReads(p) == CountLoop(ReadLines(content[p]))

\* some FilePair of the target has mates with different record counts
HasCountMismatch(t) ==
    \E i \in 1..Len(R1Sources(t)) : TextReads(R1Sources(t)[i]) # TextReads(R2Sources(t)[i])

\* the file at an output path before the run
FileBefore(p) == IF p \in prev_outputs THEN PreviousFile ELSE AbsentFile

OutputsOf(t) == {R1Output(t), R2Output(t)}

\* C4: a target one of whose FilePairs has mates with different record
\* counts is, without force, skipped with error 'paired_end_mismatch' and
\* writes no output; with force, when combined, its result carries a non-zero
\* paired_end_mismatches count.
C4_CountMismatchBlocksOrFlagsTarget ==
    \A t \in Targets :
        (wpc[t] = "done" /\ HasCountMismatch(t)) =>
            IF ~force
            THEN /\ wres[t].skipped
                 /\ wres[t].error = "paired_end_mismatch"
                 /\ \A p \in OutputsOf(t) : outfs[p].writer # t
            ELSE ~wres[t].skipped => wres[t].paired_end_mismatches > 0

\* C5: with --paired-end-dedup, for inputs whose mates have equal record
\* counts, the mate-2 records kept are those at the positions of the mate-1
\* records kept, so both outputs get the same number of records.
C5_PairedDedupKeepsMatesAligned ==
    \A t \in Targets :
        (wpc[t] = "done" /\ ~wres[t].skipped /\ args_paired_end_dedup
            /\ ~HasCountMismatch(t)) =>
            wres[t].total_reads = wres[t].r2_reads

\* C6: two distinct targets of the mapping have no output path in common.
C6_DistinctTargetsDistinctOutputs ==
    \A t1 \in Targets, t2 \in Targets :
        t1 # t2 => OutputsOf(t1) \cap OutputsOf(t2) = {}

C10_FailedTargetLeavesNoOutput ==
    [][\A t \in Targets :
          (wpc[t] = "except" /\ wpc'[t] = "done") =>
              /\ wres'[t].skipped
              /\ wres'[t].error = "exception"
              /\ \A p \in OutputsOf(t) : ~outfs'[p].exists]_vars

\* a target returned after a failure whose partially written output the
\* clean-up deleted
C10_Witness ==
    \E t \in Targets :
        /\ wpc[t] = "done"
        /\ wres[t].skipped
        /\ wres[t].error = "exception"
        /\ \E p \in OutputsOf(t) : <<t, p, TRUE>> \in removed
        /\ \A p \in OutputsOf(t) : ~outfs[p].exists
(***************************************************************************)
(* More properties of combine_fastq_files_streaming (SpecCombine)          *)
(***************************************************************************)
\* the lines of the complete records of a file: all but the fewer than four
\* lines left at its end
WholeLines(lines) == SubSeq(lines, 1, 4 * (Len(lines) \div 4))

RECURSIVE Flatten(_)
Flatten(lines) == IF lines = <<>> THEN <<>> ELSE Head(lines) \o Flatten(Tail(lines))

\* the text of the complete records of the sources, in list order
RECURSIVE WholeText(_)
WholeText(files) ==
    IF files = <<>> THEN <<>>
    ELSE Flatten(WholeLines(ReadLines(Head(files).text))) \o WholeText(Tail(files))

RECURSIVE WholeCount(_)
WholeCount(files) ==
    IF files = <<>> THEN 0
    ELSE (Len(ReadLines(Head(files).text)) \div 4) + WholeCount(Tail(files))

HasTruncatedTail(file) == file.readable /\ Len(ReadLines(file.text)) % 4 # 0

\* C15: when a readable input ends in a truncated record, the call returns
\* without error, the truncated lines are not counted by count_reads_fast,
\* and (with no filter) the output holds exactly the complete records of
\* every input, those of the inputs after the truncated one included, and the
\* count returned is their number.
C15_TruncatedTailDroppedSilently ==
    (CombineDone /\ AllReadable /\ \E i \in 1..Len(csrc) : HasTruncatedTail(csrc[i])) =>
        /\ cpc = "returned"
        /\ \A i \in 1..Len(csrc) :
              count_reads_fast(csrc[i])
                 = CountLoop(WholeLines(ReadLines(csrc[i].text)))
        /\ ~cdedup => /\ cout.text = WholeText(csrc)
                      /\ cret = WholeCount(csrc)

\* a source with a complete record and a truncated one, followed by a source
\* whose record was copied
C15_Witness ==
    /\ cpc = "returned"
    /\ ~cdedup
    /\ Len(csrc) = 2
    /\ HasTruncatedTail(csrc[1])
    /\ Len(ReadLines(csrc[1].text)) > 4
    /\ Len(ReadLines(csrc[2].text)) = 4
    /\ cret = 2

(***************************************************************************)
(* Properties of the record loop (SpecLoop)                                *)
(***************************************************************************)
\* the loop is about to read a whole record
RecordAhead == cpc = "loop" /\ clines # <<>> /\ Len(Head(clines)) >= 4

\* the text of that record
NextRecord ==
    Head(clines)[1] \o Head(clines)[2] \o Head(clines)[3] \o Head(clines)[4]

\* C14: in deduplication mode the set of seen sequences never holds more
\* than the ceiling, the call does not raise, at most one warning is emitted,
\* and from the first record read while the set is full onwards (the record
\* at which the warning is emitted) every record is written unfiltered.
C14_DedupCeilingDegradesToPassThrough ==
    /\ [](cdedup =>
            /\ Cardinality(cst.seen) <= ceiling
            /\ cst.warnings <= 1
            /\ (cst.warnings = 1 <=> ~cst.active)
            /\ cpc \in {"loop", "returned"})
    /\ [][(cdedup /\ RecordAhead /\ (~cst.active \/ Cardinality(cst.seen) >= ceiling)) =>
              /\ cst'.warnings = 1
              /\ ~cst'.active
              /\ cst'.seen = cst.seen
              /\ cst'.out = cst.out \o NextRecord
              /\ cst'.total_reads = cst.total_reads + 1]_vars

\* the set filled up to the largest ceiling, the warning was emitted, and at
\* least two records were written after the set was full
C14_Witness ==
    /\ cpc = "returned"
    /\ cdedup
    /\ ceiling = MaxCeiling
    /\ Cardinality(cst.seen) = ceiling
    /\ cst.warnings = 1
    /\ cret >= ceiling + 2

(***************************************************************************)
(* Properties of the resolution loop (SpecResolve)                         *)
(***************************************************************************)
ResolveEnded == mpc \in {"resolved", "returned"}

\* the declared source is itself a discovered key
IsExact(source_path) == HasKey(file_pairs, source_path)

\* the key fuzzy matching gives for a declared source, <<>> for none
FuzzyOf(source_path) == fuzzy_match_sample(source_path, available_samples)

\* the declared source is no key but fuzzy matching finds one for it
ResolvesFuzzily(source_path) == ~IsExact(source_path) /\ FuzzyOf(source_path) # <<>>

AllDeclared == UNION {Range(mapping[i].sources) : i \in 1..Len(mapping)}

\* the sources final_mapping holds for a target, none when it is not there
ResolvedOf(target) ==
    IF target \in DOMAIN final_mapping THEN final_mapping[target] ELSE <<>>

\* C16: a declared source equal to a discovered key resolves to that key and
\* gets no fuzzy record; one that matches only through fuzzy_match_sample
\* resolves to the matched key and is recorded in fuzzy_matches as declared
\* name -> resolved key; fuzzy_matches holds exactly the declared sources
\* resolved by fuzzy matching.
C16_FuzzyMatchesRecordExactlyFuzzyResolutions ==
    ResolveEnded =>
        /\ \A i \in 1..Len(mapping) : \A source_path \in Range(mapping[i].sources) :
              /\ IsExact(source_path) =>
                    /\ source_path \in Range(ResolvedOf(mapping[i].target))
                    /\ ~\E e \in fuzzy_matches : e[1] = source_path
              /\ ResolvesFuzzily(source_path) =>
                    /\ FuzzyOf(source_path) \in Range(ResolvedOf(mapping[i].target))
                    /\ <<source_path, FuzzyOf(source_path)>> \in fuzzy_matches
        /\ {e[1] : e \in fuzzy_matches} = {s \in AllDeclared : ResolvesFuzzily(s)}
        /\ \A e \in fuzzy_matches : e[2] = FuzzyOf(e[1])

\* resolution ended with an exact source and two different fuzzy ones
C16_Witness ==
    /\ ResolveEnded
    /\ Cardinality(fuzzy_matches) >= 2
    /\ \E s \in AllDeclared : IsExact(s)
    /\ \E e \in fuzzy_matches : e[1] # e[2] /\ Lower(e[1]) # Lower(e[2])

\* the keys the declared sources of a list resolve to, in declared order
RECURSIVE ResolvedList(_)
ResolvedList(sources) ==
    IF sources = <<>> THEN <<>>
    ELSE LET s == Head(sources)
             key == IF IsExact(s) THEN s ELSE FuzzyOf(s)
         IN  (IF key # <<>> THEN <<key>> ELSE <<>>) \o ResolvedList(Tail(sources))

\* C17: a target is in final_mapping if and only if at least one of its
\* declared sources resolved, and then with exactly its resolved sources in
\* declared order; a source that does not resolve, or a target that is
\* dropped, changes nothing for the others.
C17_TargetKeptIffSomeSourceResolved ==
    ResolveEnded =>
        /\ DOMAIN final_mapping \subseteq {mapping[i].target : i \in 1..Len(mapping)}
        /\ \A i \in 1..Len(mapping) :
              LET resolved == ResolvedList(mapping[i].sources)
              IN  /\ mapping[i].target \in DOMAIN final_mapping <=> resolved # <<>>
                  /\ ResolvedOf(mapping[i].target) = resolved

\* the first target lost its first source and kept two others in order, and
\* the second target, none of whose sources resolved, was dropped
C17_Witness ==
    /\ mpc = "resolved"
    /\ Len(mapping[1].sources) = 3
    /\ ~IsExact(mapping[1].sources[1]) /\ FuzzyOf(mapping[1].sources[1]) = <<>>
    /\ Len(final_mapping[mapping[1].target]) = 2
    /\ final_mapping[mapping[1].target][1] # final_mapping[mapping[1].target][2]
    /\ mapping[2].sources # <<>>
    /\ mapping[2].target \notin DOMAIN final_mapping

(***************************************************************************)
(* Properties of combine_fastq_files_main and main() (SpecMain)            *)
(***************************************************************************)
\* a resolved mate-1 or mate-2 file of the target is not on disk
SourceMissing(t) ==
    \E i \in 1..Len(final_mapping[t]) :
        \/ Lookup(file_pairs, final_mapping[t][i]).R1 \notin disk
        \/ Lookup(file_pairs, final_mapping[t][i]).R2 \notin disk

\* process_target returned a result that is not skipped
Succeeded(t) == wpc[t] = "done" /\ ~wres[t].skipped

\* the run ended by itself, not by an interrupt
RanToExit == mpc = "exited" /\ ~dry_run /\ caught # "KeyboardInterrupt"

\* C11: when the run is over, combination_stats holds the result of every
\* target that was submitted to the pool, whether its processing failed or
\* not.
C11_EverySubmittedTargetHasItsResult ==
    RanToExit =>
        /\ DOMAIN combination_stats = Targets
        /\ \A t \in Targets : wpc[t] = "done" /\ combination_stats[t] = wres[t]

\* C12: after the user's interrupt no target that had not yet started is
\* started, and when the process has exited no output path holds a partially
\* written file.
C12_InterruptStartsNothingLeavesNoPartialOutput ==
    caught = "KeyboardInterrupt" =>
        /\ \A t \in pending_at_interrupt : wpc[t] = "queued"
        /\ mpc = "exited" =>
              \A p \in DOMAIN outfs : ~(outfs[p].exists /\ outfs[p].partial)

\* C13: in a dry run the pre-validation loop checks every resolved file and
\* the function returns: no task is started and no output file is created,
\* changed or removed, whatever the other options.
C13_DryRunChecksSourcesAndWritesNothing ==
    /\ [](dry_run =>
            /\ mpc \in {"validate", "returned", "exited"}
            /\ \A t \in DOMAIN wpc : wpc[t] = "unsubmitted"
            /\ \A p \in DOMAIN outfs : outfs[p] = FileBefore(p))
    /\ [][(dry_run /\ mpc = "validate" /\ mpc' # "validate") =>
              /\ mpc' = "returned"
              /\ invalid_targets' = {t \in Targets : SourceMissing(t)}]_vars

\* a dry run with --force and --deduplicate that found a missing file and
\* exited, with an output of an earlier run in place
C13_Witness ==
    /\ dry_run
    /\ mpc = "exited"
    /\ force
    /\ args_deduplicate
    /\ invalid_targets # {}
    /\ prev_outputs # {}

\* C18: a target with a resolved file missing at pre-validation is removed
\* from final_mapping, is never processed and no output is written for it;
\* every other target is submitted with its sources unchanged and has been
\* processed when the run is over.
C18_InvalidTargetRemovedOthersCombined ==
    /\ []((~dry_run /\ mpc # "validate") =>
            /\ \A t \in invalid_targets :
                  /\ t \notin Targets
                  /\ wpc[t] = "removed"
                  /\ \A p \in DOMAIN outfs : outfs[p].writer # t
            /\ mpc = "exited" => \A t \in Targets : wpc[t] \in {"done", "raised"})
    /\ [][(~dry_run /\ mpc = "validate" /\ mpc' # "validate") =>
              /\ invalid_targets' = {t \in Targets : SourceMissing(t)}
              /\ \A t \in Targets \ invalid_targets' :
                    /\ t \in DOMAIN final_mapping'
                    /\ final_mapping'[t] = final_mapping[t]
                    /\ wpc'[t] = "queued"]_vars

\* a target was removed for a missing mate-2 file and has no output, and
\* another target was combined
C18_Witness ==
    /\ mpc = "exited"
    /\ ~dry_run
    /\ Mate2Of(Join(DirD, NameDot)) \notin disk
    /\ \E t \in invalid_targets : \A p \in OutputsOf(t) : ~outfs[p].exists
    /\ \E t \in Targets : Succeeded(t) /\ \A p \in OutputsOf(t) : outfs[p].writer = t

\* C19: the exit status is a failure if and only if no target succeeded.
C19_ExitStatusFailsIffNoTargetSucceeded ==
    RanToExit => (exit_status # 0 <=> ~\E t \in Targets : Succeeded(t))


(***************************************************************************)
(* C20                                                                     *)
(***************************************************************************)
BothExisted == v2_before[1].exists /\ v2_before[2].exists

\* the file a combination of the given sources leaves
CombinedFile(texts) ==
    [exists |-> TRUE, gz |-> TRUE, text |-> Flatten(texts), mtime |-> Now, opened |-> TRUE]

RECURSIVE ReadsOf(_)
ReadsOf(texts) ==
    IF texts = <<>> THEN 0
    ELSE CountAtLines(ReadLines(Head(texts))) + ReadsOf(Tail(texts))

\* C20: in resume mode, when both output files of the target exist already
\* the call never opens them for writing and never changes them, and it
\* returns the record count of the existing mate-1 output and the checksums
\* of the two existing files; when at most one of them exists the call does
\* what it does without --resume: both outputs are written anew from the
\* sources and the result is computed from them (or, in a dry run, nothing
\* is written and the empty dry-run result is returned).
C20_ResumeSkipsOnlyWhenBothOutputsExist ==
    /\ (v2_pc # "idle" /\ v2_resume /\ BothExisted) => v2_outputs = v2_before
    /\ (v2_pc = "returned" /\ v2_resume /\ BothExisted) =>
           /\ v2_result.total_reads = count_reads_fastq(v2_before[1])
           /\ v2_result.md5_r1 = md5sum(v2_before[1])
           /\ v2_result.md5_r2 = md5sum(v2_before[2])
    /\ (v2_pc = "returned" /\ v2_resume /\ ~BothExisted /\ ~v2_dry_run) =>
           /\ v2_outputs = <<CombinedFile(v2_sources.R1), CombinedFile(v2_sources.R2)>>
           /\ v2_result = [total_reads |-> ReadsOf(v2_sources.R1),
                           md5_r1 |-> md5sum(v2_outputs[1]),
                           md5_r2 |-> md5sum(v2_outputs[2])]
    /\ (v2_pc = "returned" /\ v2_resume /\ ~BothExisted /\ v2_dry_run) =>
           /\ v2_outputs = v2_before
           /\ v2_result = DryRunResult

\* a resumed call that found both outputs and returned the one record of the
\* existing mate-1 file, the sources holding another number of records
C20_Witness ==
    /\ v2_pc = "returned" /\ v2_resume /\ BothExisted
    /\ v2_result.total_reads = 1
    /\ ReadsOf(v2_sources.R1) = 2
    /\ v2_result.md5_r2 = md5sum(v2_before[2])
    /\ v2_outputs = v2_before

(***************************************************************************)
(* C23                                                                     *)
(***************************************************************************)
\* the output file as count_reads_fast opens it
OutputFile == [readable |-> cout.exists, text |-> cout.text]

\* C23: with deduplication disabled, every record the call wrote has its
\* four lines and a first line that begins with '@', and the count the call
\* returns equals the count count_reads_fast reports for the output file.
C23_WritesAndCountsOnlyValidRecords ==
    (cpc = "returned" /\ ~cdedup) =>
        /\ \A i \in 1..Len(Records(ReadLines(cout.text))) :
               StartsWith(Records(ReadLines(cout.text))[i][1], <<"@">>)
        /\ Len(ReadLines(cout.text)) % 4 = 0
        /\ cret = count_reads_fast(OutputFile)

(***************************************************************************)
(* C27                                                                     *)
(***************************************************************************)
\* the locals at the end of the same call made with every analysis option off
PlainCall == CombineFrom(csrc, 1, CombineStartWith(cdedup, NoAnalysis), cdedup).st

\* C27: whatever analysis options are enabled, the call writes the records,
\* in the order, and returns the count of the same call made with all of
\* them off.
C27_AnalysisOptionsLeaveOutputUnchanged ==
    cpc = "returned" =>
        /\ cout.text = PlainCall.out
        /\ cret = PlainCall.total_reads

\* a call with the three options on that found a barcode and an adapter and
\* measured the two records it wrote
C27_Witness ==
    /\ cpc = "returned"
    /\ analysis.check_barcodes /\ analysis.gc_analysis /\ analysis.adapter_check
    /\ cobs.barcodes_found = {<<"B", "A", "R", "C", "O", "D", "E">>}
    /\ cobs.adapters_found = {common_adapters[1]}
    /\ cobs.gc_contents = <<[num |-> 600, den |-> 12], [num |-> 100, den |-> 1]>>
    /\ cret = 2

(***************************************************************************)
(* C21                                                                     *)
(***************************************************************************)
\* C21: two runs that combine the same ordered source list, each into a new
\* output file, leave byte-identical files with identical checksums.
C21_RepeatedRunsGiveIdenticalBytes ==
    Len(runs) = 2 =>
        /\ runs[1].file = runs[2].file
        /\ runs[1].checksum = runs[2].checksum

(***************************************************************************)
(* C22, C25, C30                                                           *)
(***************************************************************************)
\* s ends with the index marker '_S' followed by digits only
HasIndexSuffix(s) ==
    \E i \in 1..(Len(s) - 2) :
        /\ SubSeq(s, i, i + 1) = sUS
        /\ \A j \in (i + 2)..Len(s) : s[j] \in DigitChars

\* C22: the base name sanitize_sample_name gives a target holds no
\* whitespace and no hyphen, no two underscores in a row, no underscore at
\* either end and no index suffix '_S<number>', and the two outputs are named
\* <base>_S1_R1_001.fastq.gz and <base>_S1_R2_001.fastq.gz.
C22_SanitizedBaseNameIsClean ==
    (npc = "returned" /\ name_out.fn = "sanitize_sample_name") =>
        /\ \A i \in 1..Len(name_out.value) : name_out.value[i] \notin Whitespace \cup {"-"}
        /\ ~Contains(name_out.value, <<"_", "_">>)
        /\ StripUnderscores(name_out.value) = name_out.value
        /\ ~HasIndexSuffix(name_out.value)
        /\ Basename(name_out.r1_output) = name_out.value \o sR1Suffix
        /\ Basename(name_out.r2_output) = name_out.value \o sR2Suffix

\* C25: the sample key extracted from a mate-1 file name
\* <X>_S<number>_R1_<rest> is <X>, also when <X> itself contains '_S'.
C25_IlluminaKeyIsTextBeforeIndexMarker ==
    (npc = "returned" /\ name_out.fn = "sample_base") =>
        \A x \in Stems : \A n \in IndexNumbers :
            name_in = IlluminaName(x, n) => name_out.value = x

\* C30: sanitizing a name the v2 sanitize_sample_name returned gives the
\* same name again.
C30_SanitizeV2Idempotent ==
    npc = "again" => name_out.value = name_out.first

(***************************************************************************)
(* C24, C28                                                                *)
(***************************************************************************)
\* C24: in the table find_fastq_files_fast returns no two keys have the same
\* mate-1 path.
C24_NoTwoKeysForOneMate1File ==
    dpc = "done" =>
        \A i, j \in 1..Len(file_pairs) :
            file_pairs[i].R1 = file_pairs[j].R1 => i = j

\* C28: in every entry of the table find_fastq_files_fast returns the mate-2
\* path is another file than the mate-1 path.
C28_Mate2IsNotMate1 ==
    dpc = "done" =>
        \A i \in 1..Len(file_pairs) : file_pairs[i].R2 # file_pairs[i].R1

(***************************************************************************)
(* C26, C29                                                                *)
(***************************************************************************)
Candidates == {available_samples[i] : i \in 1..Len(available_samples)}

\* one string is part of the other
Related(a, b) == Contains(a, b) \/ Contains(b, a)

SameIgnoringCase(query) == {c \in Candidates : Lower(c) = Lower(query)}

SubstringRelated(query) ==
    {c \in Candidates :
        Related(Lower(c), Lower(query)) \/ Related(Basename(Lower(c)), Lower(query))}

Shortests(cs) == {c \in cs : \A d \in cs : Len(c) <= Len(d)}

AfterStripping(s) == SelectSeq(Lower(s), LAMBDA ch : ch \notin {"_", "-"})

\* the first candidate of the list that matches the query once '_' and '-'
\* are taken out of both
FirstStripped(query) ==
    LET hits == {i \in 1..Len(available_samples) :
                    Related(AfterStripping(available_samples[i]), AfterStripping(query))}
    IN  IF hits = {} THEN {<<>>}
        ELSE {available_samples[CHOOSE i \in hits : \A j \in hits : i <= j]}

\* what the passes, taken in order, allow the function to return
AllowedMatches(query) ==
    IF SameIgnoringCase(query) # {} THEN SameIgnoringCase(query)
    ELSE IF SubstringRelated(query) # {} THEN Shortests(SubstringRelated(query))
    ELSE FirstStripped(query)

DeclaredNow == mapping[rtarget].sources[rsource]

\* C26: every declared source that is no key of the table is resolved by the
\* passes in their order: to a candidate equal to it ignoring case if there
\* is one, otherwise to a shortest candidate in a substring relation with it,
\* otherwise to the first candidate that matches once '_' and '-' are taken
\* out, and to nothing when no pass matches.
C26_FuzzyPassesInOrder ==
    [][(ResolveSource /\ ~IsExact(DeclaredNow)) =>
          IF matched_sources' = matched_sources
          THEN <<>> \in AllowedMatches(DeclaredNow)
          ELSE /\ matched_sources'[Len(matched_sources')] \in AllowedMatches(DeclaredNow)
               /\ Len(matched_sources') = Len(matched_sources) + 1]_vars

\* a run that resolved one declared source by each pass: 'ab' by case, 'b' to
\* the shorter of the two keys it is part of, 'c-d' after stripping
C26_Witness ==
    /\ mpc = "resolved"
    /\ {<<<<"a", "b">>, <<"A", "b">>>>, <<<<"b">>, <<"A", "b">>>>,
        <<<<"c", "-", "d">>, <<"c", "d">>>>} \subseteq fuzzy_matches
    /\ Len(final_mapping[TargetAB]) = 3

\* C29: the resolved source list of a target names no file pair twice:
\* neither the same key twice nor two keys of the same mate-1 file.
C29_ResolvedSourcesNameEachPairOnce ==
    ResolveEnded =>
        \A t \in DOMAIN final_mapping :
            \A i, j \in 1..Len(final_mapping[t]) :
                Lookup(file_pairs, final_mapping[t][i]).R1
                    = Lookup(file_pairs, final_mapping[t][j]).R1 => i = j

=============================================================================
